---- MODULE Spec2Model ----
(***************************************************************************)
(* DNS tic-tac-toe: the game engine (pkg/game/engine.go), one session with *)
(* its player admission (pkg/game/session.go) and the DNS handlers that    *)
(* drive them (pkg/dns/server.go).                                         *)
(*                                                                         *)
(* Two specifications share the variables:                                 *)
(*   EngineSpec  a single caller of the Engine interface, every call one   *)
(*               atomic step (each engine method holds g.mu throughout);   *)
(*   Spec        concurrent DNS handlers on one session, one step per lock *)
(*               acquisition or engine call.                               *)
(***************************************************************************)
EXTENDS Integers, Sequences, FiniteSets, TLC

\* ------------------------------------------------------------------ bounds
\* Arguments a direct caller passes to MakeMove range over -1..MaxArg.
MaxArg == 3

\* Number of DNS handlers that may run at the same time.
NumHandlers == 2

\* GeneratePlayerToken draws from NumTokens distinct token values.
NumTokens == 3

\* Move queries of the handlers address the first MaxCell cells (row-major).
MaxCell == 2

\* The handlers serve at most MaxCommands queries in a run.
MaxCommands == 3

\* CreateSession draws session ids from NumSessionIDs distinct values.
NumSessionIDs == 2

\* The clock runs from 0 to MaxTime ticks.
MaxTime == 2

\* cfg.SessionMaxAge, in ticks.
MaxAge == 1

\* The manager serves at most MaxQueries queries in a run.
MaxQueries == 3

\* The DNS responder serves at most MaxRequests messages in a run.
MaxRequests == 4

\* ----------------------------------------------------------- program types
PlayerX == "X"
PlayerO == "O"
Empty == ""

StatusPending == "pending"
StatusPlaying == "playing"
StatusXWins == "X_wins"
StatusOWins == "O_wins"
StatusDraw == "draw"

ErrCodeGameOver == "GAME_OVER"
ErrCodeWrongTurn == "WRONG_TURN"
ErrCodeInvalidPosition == "INVALID_POSITION"
ErrCodePositionTaken == "POSITION_TAKEN"

Idx == 0..2
Pos == Idx \X Idx

\* nil error
NoErr == [Code |-> "", Msg |-> <<>>]

NewGameOverError(status) == [Code |-> ErrCodeGameOver, Msg |-> <<"game is over", status>>]

NewWrongTurnError(player, currentTurn) ==
  [Code |-> ErrCodeWrongTurn, Msg |-> <<"not your turn", player, currentTurn>>]

NewInvalidPositionError(row, col) ==
  [Code |-> ErrCodeInvalidPosition, Msg |-> <<"invalid position", row, col>>]

ErrPositionTaken == [Code |-> ErrCodePositionTaken, Msg |-> <<"position already taken">>]

\* ------------------------------------------------------------- game engine
\* A GameState value g is a record [Board, Turn, Status].
EmptyBoard == [p \in Pos |-> Empty]

NewTicTacToe == [Board |-> EmptyBoard, Turn |-> PlayerX, Status |-> StatusPending]

checkWinNoAntiDiagonal(board, player) ==
  \/ \E i \in Idx : board[<<i, 0>>] = player /\ board[<<i, 1>>] = player /\ board[<<i, 2>>] = player
  \/ \E i \in Idx : board[<<0, i>>] = player /\ board[<<1, i>>] = player /\ board[<<2, i>>] = player
  \/ board[<<0, 0>>] = player /\ board[<<1, 1>>] = player /\ board[<<2, 2>>] = player

checkWin(board, player) ==
  \/ \E i \in Idx : board[<<i, 0>>] = player /\ board[<<i, 1>>] = player /\ board[<<i, 2>>] = player
  \/ \E i \in Idx : board[<<0, i>>] = player /\ board[<<1, i>>] = player /\ board[<<2, i>>] = player
  \/ board[<<0, 0>>] = player /\ board[<<1, 1>>] = player /\ board[<<2, 2>>] = player
  \/ board[<<0, 2>>] = player /\ board[<<1, 1>>] = player /\ board[<<2, 0>>] = player

isBoardFullNever(board) == FALSE

isBoardFull(board) == \A i \in Idx : \A j \in Idx : board[<<i, j>>] # Empty

\* The four precondition checks of MakeMove, in the order of the code.
MoveErrorPositionFirst(g, row, col, player) ==
  IF g.Status # StatusPlaying THEN NewGameOverError(g.Status)
  ELSE IF row < 0 \/ row >= 3 \/ col < 0 \/ col >= 3 THEN NewInvalidPositionError(row, col)
  ELSE IF player # g.Turn THEN NewWrongTurnError(player, g.Turn)
  ELSE IF g.Board[<<row, col>>] # Empty THEN ErrPositionTaken
  ELSE NoErr

MoveErrorPendingOnly(g, row, col, player) ==
  IF g.Status = StatusPending THEN NewGameOverError(g.Status)
  ELSE IF player # g.Turn THEN NewWrongTurnError(player, g.Turn)
  ELSE IF row < 0 \/ row >= 3 \/ col < 0 \/ col >= 3 THEN NewInvalidPositionError(row, col)
  ELSE IF g.Board[<<row, col>>] # Empty THEN ErrPositionTaken
  ELSE NoErr

MoveError(g, row, col, player) ==
  IF g.Status # StatusPlaying THEN NewGameOverError(g.Status)
  ELSE IF player # g.Turn THEN NewWrongTurnError(player, g.Turn)
  ELSE IF row < 0 \/ row >= 3 \/ col < 0 \/ col >= 3 THEN NewInvalidPositionError(row, col)
  ELSE IF g.Board[<<row, col>>] # Empty THEN ErrPositionTaken
  ELSE NoErr

\* The effect of an accepted move: place, then win / draw / switch turn.
ApplyMoveAlwaysSwitch(g, row, col, player) ==
  LET board == [g.Board EXCEPT ![<<row, col>>] = player] IN
    IF checkWin(board, player)
      THEN [Board |-> board, Turn |-> (IF g.Turn = PlayerX THEN PlayerO ELSE PlayerX),
            Status |-> IF player = PlayerX THEN StatusXWins ELSE StatusOWins]
    ELSE IF isBoardFull(board)
      THEN [Board |-> board, Turn |-> (IF g.Turn = PlayerX THEN PlayerO ELSE PlayerX), Status |-> StatusDraw]
    ELSE [Board |-> board, Turn |-> (IF g.Turn = PlayerX THEN PlayerO ELSE PlayerX), Status |-> g.Status]

ApplyMoveDrawBeforeWin(g, row, col, player) ==
  LET board == [g.Board EXCEPT ![<<row, col>>] = player] IN
    IF isBoardFull(board)
      THEN [Board |-> board, Turn |-> g.Turn, Status |-> StatusDraw]
    ELSE IF checkWin(board, player)
      THEN [Board |-> board, Turn |-> g.Turn,
            Status |-> IF player = PlayerX THEN StatusXWins ELSE StatusOWins]
    ELSE [Board |-> board,
          Turn |-> IF g.Turn = PlayerX THEN PlayerO ELSE PlayerX,
          Status |-> g.Status]

ApplyMove(g, row, col, player) ==
  LET board == [g.Board EXCEPT ![<<row, col>>] = player] IN
    IF checkWin(board, player)
      THEN [Board |-> board, Turn |-> g.Turn,
            Status |-> IF player = PlayerX THEN StatusXWins ELSE StatusOWins]
    ELSE IF isBoardFull(board)
      THEN [Board |-> board, Turn |-> g.Turn, Status |-> StatusDraw]
    ELSE [Board |-> board,
          Turn |-> IF g.Turn = PlayerX THEN PlayerO ELSE PlayerX,
          Status |-> g.Status]

\* MakeMove returns the new state and the error (NoErr when accepted).
MakeMoveWriteBeforeTakenCheck(g, row, col, player) ==
  LET e == MoveError(g, row, col, player) IN
    IF e = NoErr THEN [state |-> ApplyMove(g, row, col, player), err |-> NoErr]
    ELSE IF e = ErrPositionTaken
      THEN [state |-> [g EXCEPT !.Board[<<row, col>>] = player], err |-> e]
    ELSE [state |-> g, err |-> e]

MakeMove(g, row, col, player) ==
  LET e == MoveError(g, row, col, player) IN
    IF e # NoErr THEN [state |-> g, err |-> e]
    ELSE [state |-> ApplyMove(g, row, col, player), err |-> NoErr]

ResetStarts(g) == [NewTicTacToe EXCEPT !.Status = StatusPlaying]

ResetKeepsTurn(g) == [NewTicTacToe EXCEPT !.Turn = g.Turn]

Reset(g) == NewTicTacToe

StartGame(g) == IF g.Status = StatusPending THEN [g EXCEPT !.Status = StatusPlaying] ELSE g

\* ------------------------------------------------------------------- state
Procs == 1..NumHandlers

\* Values of a PlayerToken; NoToken is the empty string.
Tokens == 1..NumTokens
NoToken == 0

VARIABLES
  Board,    \* GameState.Board of the session's engine
  Turn,     \* GameState.Turn
  Status,   \* GameState.Status
  Players,  \* Session.Players: a function from the registered tokens to X / O
  smu,      \* Session.mu: 0 when free, else the handler holding the write lock
  pc,       \* position of each handler
  loc,      \* locals of each handler: token, player, exists, row, col, err;
            \* state, count: the GetState() copy and the player count read by
            \* WriteJSONWithSession;
            \* nil: the query's MoveParams is nil;
            \* seen: how many JoinSession calls had returned when its join began
  issued,   \* what the successful JoinSession calls returned, in order of return:
            \* token, player, and the seen of the call
  out,      \* the reply written by the latest step (NoReply when none)
  ncmd,     \* number of queries the server has begun to serve
  last,     \* the latest direct call of an Engine method: arguments and error
  sessions, \* Manager.sessions: a function from the ids in the map to sessions
            \* [CreatedAt, Game, Players]
  now,      \* time.Now(), in ticks
  req,      \* the operation on the manager of the latest step: the query
            \* served or the reaper pass (NoReq when none)
  reaped,   \* the ids a reaper pass removed and CreateSession has not issued since
  mmu,      \* Manager.mu: 0 when free, else the handler holding the write lock
  cloc,     \* locals of each handler serving a create: id, the shortID drawn;
            \* conc: the ids CreateSession has returned to creates running
            \* concurrently with this one
  config,   \* the Config main loaded: Zone, TTL, NSHostname
  question, \* the question of the latest DNS message served
  resp      \* the reply to it: rcode and answer section

game == [Board |-> Board, Turn |-> Turn, Status |-> Status]

engineVars == <<Board, Turn, Status>>

handlerVars == <<Players, smu, pc, loc, issued, out, ncmd>>

dnsVars == <<config, question, resp>>

mgrVars == <<sessions, now, req, reaped, mmu, cloc, config, question, resp>>

vars ==
  <<Board, Turn, Status, Players, smu, pc, loc, issued, out, ncmd, last, sessions, now, req, reaped,
    mmu, cloc, config, question, resp>>

SetGame(g) == Board' = g.Board /\ Turn' = g.Turn /\ Status' = g.Status

NoCall == [op |-> "NewTicTacToe", row |-> 0, col |-> 0, player |-> Empty, err |-> NoErr]

NoLoc ==
  [token |-> NoToken, player |-> Empty, exists |-> FALSE, nil |-> FALSE, row |-> 0, col |-> 0,
   err |-> NoErr, seen |-> 0, state |-> <<>>, count |-> 0]

NoReply == [proc |-> 0, cmd |-> "", text |-> <<>>, state |-> <<>>]

\* The empty map.
NoPlayers == [t \in {} |-> Empty]

\* NewManager: no sessions.
NoSessions == [id \in {} |-> <<>>]

\* No query.
NoReq == [cmd |-> "", id |-> 0, token |-> NoToken, nil |-> TRUE, row |-> 0, col |-> 0]

\* No create is being served.
NoCloc == [id |-> 0, conc |-> {}]

\* CreateSession: a fresh engine, no players; no handler is running.
InitState ==
  /\ Board = NewTicTacToe.Board
  /\ Turn = NewTicTacToe.Turn
  /\ Status = NewTicTacToe.Status
  /\ Players = NoPlayers
  /\ smu = 0
  /\ pc = [p \in Procs |-> "idle"]
  /\ loc = [p \in Procs |-> NoLoc]
  /\ issued = <<>>
  /\ out = NoReply
  /\ ncmd = 0
  /\ last = NoCall
  /\ sessions = NoSessions
  /\ now = 0
  /\ req = NoReq
  /\ reaped = {}
  /\ mmu = 0
  /\ cloc = [p \in Procs |-> NoCloc]
  /\ question = [none |-> FALSE, Name |-> <<>>, Qtype |-> ""]
  /\ resp = [rcode |-> "", answer |-> <<>>]

\* The server runs with the default configuration (main.go).
Init ==
  /\ InitState
  /\ config = [Zone |-> <<"g", "a", "m", "e", ".", "l", "o", "c", "a", "l", ".">>, TTL |-> 0,
               NSHostname |-> <<"l", "o", "c", "a", "l", "h", "o", "s", "t">>]

\* ------------------------------------------- EngineSpec: the Engine methods
Arg == -1..MaxArg

EngMakeMove ==
  \E row \in Arg, col \in Arg, player \in {PlayerX, PlayerO} :
    LET r == MakeMove(game, row, col, player) IN
      /\ SetGame(r.state)
      /\ last' = [op |-> "MakeMove", row |-> row, col |-> col, player |-> player, err |-> r.err]
      /\ UNCHANGED <<handlerVars, mgrVars>>

EngReset ==
  /\ SetGame(Reset(game))
  /\ last' = [NoCall EXCEPT !.op = "Reset"]
  /\ UNCHANGED <<handlerVars, mgrVars>>

EngStartGame ==
  /\ SetGame(StartGame(game))
  /\ last' = [NoCall EXCEPT !.op = "StartGame"]
  /\ UNCHANGED <<handlerVars, mgrVars>>

EngineNext == EngMakeMove \/ EngReset \/ EngStartGame

EngineSpec == Init /\ [][EngineNext]_vars

\* --------------------------------------------------- session (session.go)
len(m) == Cardinality(DOMAIN m)

\* m[k] = v of a Go map: adds the key or overwrites its value.
MapSet(m, k, v) == [t \in DOMAIN m \cup {k} |-> IF t = k THEN v ELSE m[t]]

\* The replies of the formatter (responses.go), as tuples of their parts.
FormatBoard(g) == <<g.Board, g.Turn, g.Status>>

\* json.Marshal of a GameState: the object's members in the order of the
\* struct's fields, board as its nine cells row by row, then turn and status.
MarshalTurnAsStatus(state) ==
  <<"board">> \o [k \in 1..9 |-> state.Board[<<(k - 1) \div 3, (k - 1) % 3>>]]
    \o <<"turn", state.Status, "status", state.Turn>>

Marshal(state) ==
  <<"board">> \o [k \in 1..9 |-> state.Board[<<(k - 1) \div 3, (k - 1) % 3>>]]
    \o <<"turn", state.Turn, "status", state.Status>>

\* GetStateJSON: the engine's state, marshalled.
GetStateJSON(g) == Marshal(g)

\* WriteJSONWithSession, given the copy GetState() returned and the count
\* GetPlayerCount() returned: status is set to pending when count < 2.
WriteJSONWithSession(state, count) ==
  Marshal(IF count < 2 THEN [state EXCEPT !.Status = StatusPending] ELSE state)

Reply(p, cmd, text, state) == [proc |-> p, cmd |-> cmd, text |-> text, state |-> state]

\* The server receives one more query, of the MaxCommands it serves in a run.
Receive == ncmd < MaxCommands /\ ncmd' = ncmd + 1

\* A handler moves from pc value a to b, its locals becoming l.
Goto(p, a, b, l) ==
  /\ pc[p] = a
  /\ pc' = [pc EXCEPT ![p] = b]
  /\ loc' = [loc EXCEPT ![p] = l]

\* s.mu.Lock() returns only when no handler holds the lock.
MuFreeAlways(mu) == TRUE

MuFree(mu) == mu = 0

\* JoinSession: "session is full" check.
SessionFullOffByOne(n) == n >= 3

SessionFull(n) == n >= 2

\* JoinSession: X for the first player, O otherwise.
AssignedPlayerOffByOne(n) == IF n <= 1 THEN PlayerX ELSE PlayerO

AssignedPlayer(n) == IF n = 0 THEN PlayerX ELSE PlayerO

\* _, exists := s.Players[token]
TokenExistsNever(token, players) == FALSE

TokenExists(token, players) == token \in DOMAIN players

\* handleGameCommand for join: the session is found, JoinSession is called.
BeginJoin(p) ==
  /\ Goto(p, "idle", "join_lock", [NoLoc EXCEPT !.seen = Len(issued)])
  /\ out' = NoReply
  /\ UNCHANGED <<engineVars, Players, smu, issued, last, mgrVars>>

\* s.mu.Lock()
JoinLock(p) ==
  /\ MuFree(smu)
  /\ smu' = p
  /\ Goto(p, "join_lock", "join_check", loc[p])
  /\ out' = NoReply
  /\ UNCHANGED <<engineVars, Players, issued, ncmd, last, mgrVars>>

\* The full check; on failure the deferred unlock runs and handleJoinCommand
\* writes the error.  Otherwise the player is assigned, a token is drawn and
\* the loop's init statement evaluates exists, once.
JoinCheck(p) ==
  /\ pc[p] = "join_check"
  /\ IF SessionFull(len(Players))
       THEN /\ Goto(p, "join_check", "idle", NoLoc)
            /\ smu' = 0
            /\ out' = Reply(p, "join", <<"ERROR", "session is full (2 players already joined)">>, <<>>)
       ELSE /\ \E token \in Tokens :
                 Goto(p, "join_check", "join_loop",
                      [loc[p] EXCEPT !.player = AssignedPlayer(len(Players)),
                                     !.token = token,
                                     !.exists = TokenExists(token, Players)])
            /\ smu' = smu
            /\ out' = NoReply
  /\ UNCHANGED <<engineVars, Players, issued, ncmd, last, mgrVars>>

\* for _, exists := s.Players[token]; exists; { token = GeneratePlayerToken() }
\* The condition reads the variable exists, which the body never assigns.
JoinLoop(p) ==
  /\ pc[p] = "join_loop"
  /\ IF loc[p].exists
       THEN \E token \in Tokens : Goto(p, "join_loop", "join_loop", [loc[p] EXCEPT !.token = token])
       ELSE Goto(p, "join_loop", "join_insert", loc[p])
  /\ out' = NoReply
  /\ UNCHANGED <<engineVars, Players, smu, issued, ncmd, last, mgrVars>>

\* s.Players[token] = assignedPlayer
JoinInsert(p) ==
  /\ Players' = MapSet(Players, loc[p].token, loc[p].player)
  /\ Goto(p, "join_insert", IF len(Players') = 2 THEN "join_start" ELSE "join_unlock", loc[p])
  /\ out' = NoReply
  /\ UNCHANGED <<engineVars, smu, issued, ncmd, last, mgrVars>>

\* s.Game.StartGame() of the second joiner
JoinStart(p) ==
  /\ SetGame(StartGame(game))
  /\ Goto(p, "join_start", "join_unlock", loc[p])
  /\ out' = NoReply
  /\ UNCHANGED <<Players, smu, issued, ncmd, last, mgrVars>>

\* return token, assignedPlayer, nil (deferred unlock); WriteJoinSuccess
JoinUnlock(p) ==
  /\ Goto(p, "join_unlock", "idle", NoLoc)
  /\ smu' = 0
  /\ issued' = Append(issued, [token |-> loc[p].token, player |-> loc[p].player, seen |-> loc[p].seen])
  /\ out' = Reply(p, "join", <<"Joined session", loc[p].token, loc[p].player>>, <<>>)
  /\ UNCHANGED <<engineVars, Players, ncmd, last, mgrVars>>

JoinSession(p) ==
  JoinLock(p) \/ JoinCheck(p) \/ JoinLoop(p) \/ JoinInsert(p) \/ JoinStart(p) \/ JoinUnlock(p)

\* A redraw that yields a token no player of the session holds.
FreshRedraw(p) == JoinLoop(p) /\ loc'[p].token \notin DOMAIN Players

\* GetPlayerCount / GetPlayer take s.mu.RLock(): no writer may hold the lock.
RLockFree == smu = 0

GetPlayerCount == len(Players)

\* ------------------------------------------------ handlers (server.go)
\* handleGameCommand for reset: the session is found.
BeginReset(p) ==
  /\ Goto(p, "idle", "rs_reset", NoLoc)
  /\ out' = NoReply
  /\ UNCHANGED <<engineVars, Players, smu, issued, last, mgrVars>>

\* session.Game.Reset()
ResetReset(p) ==
  /\ SetGame(Reset(game))
  /\ Goto(p, "rs_reset", "rs_count", loc[p])
  /\ out' = NoReply
  /\ UNCHANGED <<Players, smu, issued, ncmd, last, mgrVars>>

\* if session.GetPlayerCount() == 2
ResetCount(p) ==
  /\ RLockFree
  /\ Goto(p, "rs_count", IF GetPlayerCount = 2 THEN "rs_start" ELSE "rs_write", loc[p])
  /\ out' = NoReply
  /\ UNCHANGED <<engineVars, Players, smu, issued, ncmd, last, mgrVars>>

\* session.Game.StartGame()
ResetStart(p) ==
  /\ SetGame(StartGame(game))
  /\ Goto(p, "rs_start", "rs_write", loc[p])
  /\ out' = NoReply
  /\ UNCHANGED <<Players, smu, issued, ncmd, last, mgrVars>>

\* WriteReset: FormatBoard reads the engine state
ResetWrite(p) ==
  /\ Goto(p, "rs_write", "idle", NoLoc)
  /\ out' = Reply(p, "reset", <<"Game reset!">>, FormatBoard(game))
  /\ UNCHANGED <<engineVars, Players, smu, issued, ncmd, last, mgrVars>>

handleResetCommand(p) == ResetReset(p) \/ ResetCount(p) \/ ResetStart(p) \/ ResetWrite(p)

\* MoveParams.IsValid
IsValidAlways(row, col) == TRUE

IsValid(row, col) == row >= 0 /\ row < 3 /\ col >= 0 /\ col < 3

\* The MoveParams a move query can carry: a cell, an out-of-range row, or nil
\* when the row or col field is not a number.
MoveParams ==
  {[Nil |-> FALSE, Row |-> c \div 3, Col |-> c % 3] : c \in 0..(MaxCell - 1)}
    \cup {[Nil |-> FALSE, Row |-> 3, Col |-> 0], [Nil |-> TRUE, Row |-> 0, Col |-> 0]}

\* query.MoveParams == nil || !query.MoveParams.IsValid() does not hold
ParamsOK(mp) == ~mp.Nil /\ IsValid(mp.Row, mp.Col)

\* handleGameCommand for move: the session is found and handleMoveCommand is
\* called with the parsed query (its PlayerToken and MoveParams).
BeginMove(p) ==
  /\ \E token \in Tokens \cup {NoToken}, mp \in MoveParams :
       Goto(p, "idle", "mv_valid",
            [NoLoc EXCEPT !.token = token, !.nil = mp.Nil, !.row = mp.Row, !.col = mp.Col])
  /\ out' = NoReply
  /\ UNCHANGED <<engineVars, Players, smu, issued, last, mgrVars>>

\* The text of NewInvalidMoveFormatError(query.RawQuery); the raw query is
\* modelled by the token and move fields it carries.
NewInvalidMoveFormatError(l) ==
  <<"ERROR", "invalid move format", [token |-> l.token, nil |-> l.nil, row |-> l.row, col |-> l.col]>>

\* if query.MoveParams == nil || !query.MoveParams.IsValid()
MoveValidate(p) ==
  /\ pc[p] = "mv_valid"
  /\ IF ~ParamsOK([Nil |-> loc[p].nil, Row |-> loc[p].row, Col |-> loc[p].col])
       THEN /\ Goto(p, "mv_valid", "idle", NoLoc)
            /\ out' = Reply(p, "move", NewInvalidMoveFormatError(loc[p]), <<>>)
       ELSE /\ Goto(p, "mv_valid", "mv_count", loc[p])
            /\ out' = NoReply
  /\ UNCHANGED <<engineVars, Players, smu, issued, ncmd, last, mgrVars>>

\* session.GetPlayerCount() < 2
WaitingForPlayersOffByOne(n) == n < 1

WaitingForPlayers(n) == n < 2

\* if session.GetPlayerCount() < 2 ...; if playerToken == "" ...
MoveCount(p) ==
  /\ pc[p] = "mv_count"
  /\ RLockFree
  /\ IF WaitingForPlayers(GetPlayerCount)
       THEN /\ Goto(p, "mv_count", "idle", NoLoc)
            /\ out' = Reply(p, "move", <<"ERROR", "waiting for players to join (need 2 players)">>, <<>>)
     ELSE IF loc[p].token = NoToken
       THEN /\ Goto(p, "mv_count", "idle", NoLoc)
            /\ out' = Reply(p, "move", <<"ERROR", "player token is required">>, <<>>)
     ELSE /\ Goto(p, "mv_count", "mv_player", loc[p])
          /\ out' = NoReply
  /\ UNCHANGED <<engineVars, Players, smu, issued, ncmd, last, mgrVars>>

\* Session.GetPlayer: the player of a token and whether the lookup failed.
GetPlayerUnknownIsX(token, players) ==
  [player |-> IF token \in DOMAIN players THEN players[token] ELSE PlayerX, err |-> FALSE]

GetPlayer(token, players) ==
  IF token \in DOMAIN players
    THEN [player |-> players[token], err |-> FALSE]
    ELSE [player |-> Empty, err |-> TRUE]

\* player, err := session.GetPlayer(playerToken)
MovePlayer(p) ==
  /\ pc[p] = "mv_player"
  /\ RLockFree
  /\ LET r == GetPlayer(loc[p].token, Players) IN
       IF r.err
         THEN /\ Goto(p, "mv_player", "idle", NoLoc)
              /\ out' = Reply(p, "move", <<"ERROR", "invalid player token", loc[p].token>>, <<>>)
         ELSE /\ Goto(p, "mv_player", "mv_make", [loc[p] EXCEPT !.player = r.player])
              /\ out' = NoReply
  /\ UNCHANGED <<engineVars, Players, smu, issued, ncmd, last, mgrVars>>

\* err = session.Game.MakeMove(row, col, player)
MoveMake(p) ==
  /\ pc[p] = "mv_make"
  /\ LET r == MakeMove(game, loc[p].row, loc[p].col, loc[p].player) IN
       /\ SetGame(r.state)
       /\ Goto(p, "mv_make", "mv_write", [loc[p] EXCEPT !.err = r.err])
  /\ out' = NoReply
  /\ UNCHANGED <<Players, smu, issued, ncmd, last, mgrVars>>

\* WriteMoveError / WriteMoveAccepted: FormatBoard reads the engine state
MoveWrite(p) ==
  /\ Goto(p, "mv_write", "idle", NoLoc)
  /\ out' = IF loc[p].err # NoErr
              THEN Reply(p, "move", <<"ERROR", loc[p].err>>, FormatBoard(game))
              ELSE Reply(p, "move", <<"Move accepted!", loc[p].row, loc[p].col, loc[p].player>>, FormatBoard(game))
  /\ UNCHANGED <<engineVars, Players, smu, issued, ncmd, last, mgrVars>>

handleMoveCommand(p) ==
  MoveValidate(p) \/ MoveCount(p) \/ MovePlayer(p) \/ MoveMake(p) \/ MoveWrite(p)

\* handleGameCommand: a query arrives and is dispatched to its handler.
handleGameCommand(p) == BeginJoin(p) \/ BeginReset(p) \/ BeginMove(p)

\* The steps of a handler that is serving a query.
Run(p) == JoinSession(p) \/ handleResetCommand(p) \/ handleMoveCommand(p)

\* Concurrent handlers on the session, each query one of the MaxCommands.
Next == \E p \in Procs : (Receive /\ handleGameCommand(p)) \/ Run(p)

Spec == Init /\ [][Next]_vars

\* Scheduling: a handler that can take a step eventually does, also when the
\* lock it waits for is free only from time to time (sync.RWMutex hands the
\* lock to waiters), and a loop that keeps drawing random tokens eventually
\* draws one that is not registered.  Queries need not keep arriving.
FairSpec == Spec /\ \A p \in Procs : SF_vars(Run(p)) /\ SF_vars(FreshRedraw(p))

\* Concurrent handlers on the session, any number of queries.
FreeNext == \E p \in Procs : (ncmd' = ncmd /\ handleGameCommand(p)) \/ Run(p)

FreeSpec == Init /\ [][FreeNext]_vars

\* handleGameCommand for json: the session is found.
BeginJSON(p) ==
  /\ Goto(p, "idle", "js_state", NoLoc)
  /\ out' = NoReply
  /\ UNCHANGED <<engineVars, Players, smu, issued, last, mgrVars>>

\* state := gameEngine.GetState()
JSONState(p) ==
  /\ Goto(p, "js_state", "js_count", [loc[p] EXCEPT !.state = game])
  /\ out' = NoReply
  /\ UNCHANGED <<engineVars, Players, smu, issued, ncmd, last, mgrVars>>

\* session.GetPlayerCount()
JSONCount(p) ==
  /\ RLockFree
  /\ Goto(p, "js_count", "js_write", [loc[p] EXCEPT !.count = GetPlayerCount])
  /\ out' = NoReply
  /\ UNCHANGED <<engineVars, Players, smu, issued, ncmd, last, mgrVars>>

\* json.Marshal(state), writeText
JSONWrite(p) ==
  /\ Goto(p, "js_write", "idle", NoLoc)
  /\ out' = Reply(p, "json", WriteJSONWithSession(loc[p].state, loc[p].count), <<>>)
  /\ UNCHANGED <<engineVars, Players, smu, issued, ncmd, last, mgrVars>>

handleJSONCommand(p) == JSONState(p) \/ JSONCount(p) \/ JSONWrite(p)

\* Concurrent handlers on the session serving join, move and json queries.
JSONNext ==
  \E p \in Procs :
    \/ Receive /\ (BeginJoin(p) \/ BeginMove(p) \/ BeginJSON(p))
    \/ JoinSession(p) \/ handleMoveCommand(p) \/ handleJSONCommand(p)

JSONSpec == Init /\ [][JSONNext]_vars

\* One query at a time: a query is received only when no handler is serving
\* one, so that no two commands on the session run concurrently.
AllIdle == \A q \in Procs : pc[q] = "idle"

SeqNext == \E p \in Procs : (AllIdle /\ ncmd' = ncmd /\ handleGameCommand(p)) \/ Run(p)

SeqSpec == Init /\ [][SeqNext]_vars

\* Concurrent handlers on the session serving join and move queries only:
\* the two joins one at a time, then the MaxCommands moves of a run, each
\* sent for a cell of the board with a token the session has issued. The
\* tokens are numbered in the order in which they are registered.
MovesNext ==
  \E p \in Procs :
    \/ ncmd' = ncmd /\ AllIdle /\ len(Players) < 2 /\ BeginJoin(p)
    \/ Receive /\ BeginMove(p) /\ loc'[p].token \in DOMAIN Players /\ ~loc'[p].nil /\ loc'[p].row \in Idx
    \/ JoinSession(p) /\ DOMAIN Players' = 1..len(Players')
    \/ handleMoveCommand(p)

MovesSpec == Init /\ [][MovesNext]_vars

\* ------------------------------------------- session manager and reaper
\* Values of a session id.
SessionIDs == 1..NumSessionIDs

\* The MoveParams of the move queries sent to the manager: the first cell, an
\* out-of-range row, or nil.
MgrMoveParams ==
  {[Nil |-> FALSE, Row |-> 0, Col |-> 0], [Nil |-> FALSE, Row |-> 3, Col |-> 0],
   [Nil |-> TRUE, Row |-> 0, Col |-> 0]}

\* The per-session queries parseSubdomain yields (status is parsed as board).
GameQueries ==
  {[NoReq EXCEPT !.cmd = c, !.id = i] : c \in {"join", "board", "reset", "json"}, i \in SessionIDs}
    \cup {[cmd |-> "move", id |-> i, token |-> t, nil |-> mp.Nil, row |-> mp.Row, col |-> mp.Col] :
             i \in SessionIDs, t \in Tokens \cup {NoToken}, mp \in MgrMoveParams}

\* CreateSession: the new Session value.
NewSession(t) == [CreatedAt |-> t, Game |-> NewTicTacToe, Players |-> NoPlayers]

\* handleJoinCommand run to its reply; draw is the token GeneratePlayerToken
\* returns (a draw that is already registered never returns, see JoinLoop).
ServeJoin(s, draw) ==
  IF SessionFull(len(s.Players))
    THEN [session |-> s, text |-> <<"ERROR", "session is full (2 players already joined)">>,
          state |-> <<>>]
    ELSE LET player == AssignedPlayer(len(s.Players))
             players == MapSet(s.Players, draw, player)
         IN [session |-> [s EXCEPT !.Players = players,
                                   !.Game = IF len(players) = 2 THEN StartGame(s.Game) ELSE s.Game],
             text |-> <<"Joined session", draw, player>>,
             state |-> <<>>]

\* handleMoveCommand run to its reply.
ServeMove(s, q) ==
  IF ~ParamsOK([Nil |-> q.nil, Row |-> q.row, Col |-> q.col])
    THEN [session |-> s, text |-> NewInvalidMoveFormatError(q), state |-> <<>>]
  ELSE IF WaitingForPlayers(len(s.Players))
    THEN [session |-> s, text |-> <<"ERROR", "waiting for players to join (need 2 players)">>,
          state |-> <<>>]
  ELSE IF q.token = NoToken
    THEN [session |-> s, text |-> <<"ERROR", "player token is required">>, state |-> <<>>]
  ELSE LET pl == GetPlayer(q.token, s.Players) IN
    IF pl.err
      THEN [session |-> s, text |-> <<"ERROR", "invalid player token", q.token>>, state |-> <<>>]
      ELSE LET r == MakeMove(s.Game, q.row, q.col, pl.player) IN
        [session |-> [s EXCEPT !.Game = r.state],
         text |-> IF r.err # NoErr THEN <<"ERROR", r.err>>
                  ELSE <<"Move accepted!", q.row, q.col, pl.player>>,
         state |-> FormatBoard(r.state)]

\* handleResetCommand run to its reply.
ServeReset(s) ==
  LET g == IF len(s.Players) = 2 THEN StartGame(Reset(s.Game)) ELSE Reset(s.Game) IN
    [session |-> [s EXCEPT !.Game = g], text |-> <<"Game reset!">>, state |-> FormatBoard(g)]

\* handleBoardCommand, handleJSONCommand: views of the session.
ServeView(s, q) ==
  [session |-> s,
   text |-> IF q.cmd = "json" THEN WriteJSONWithSession(s.Game, len(s.Players)) ELSE <<"board">>,
   state |-> IF q.cmd = "json" THEN <<>> ELSE FormatBoard(s.Game)]

\* The text of NewSessionNotFoundError with the hint of handleGameCommand.
SessionNotFound(id) == <<"ERROR", "session not found", id, "Create a new session with: new">>

\* handleGameCommand: look the session up, then dispatch on the command.
ServeGameCommandValidatesFirst(ss, q, draw) ==
  IF q.cmd = "move" /\ ~ParamsOK([Nil |-> q.nil, Row |-> q.row, Col |-> q.col])
    THEN [sessions |-> ss, reply |-> Reply(0, q.cmd, NewInvalidMoveFormatError(q), <<>>)]
  ELSE IF q.id \notin DOMAIN ss
    THEN [sessions |-> ss, reply |-> Reply(0, q.cmd, SessionNotFound(q.id), <<>>)]
  ELSE LET r == IF q.cmd = "join" THEN ServeJoin(ss[q.id], draw)
                ELSE IF q.cmd = "move" THEN ServeMove(ss[q.id], q)
                ELSE IF q.cmd = "reset" THEN ServeReset(ss[q.id])
                ELSE ServeView(ss[q.id], q)
       IN [sessions |-> [ss EXCEPT ![q.id] = r.session], reply |-> Reply(0, q.cmd, r.text, r.state)]

ServeGameCommandJoinCreates(ss, q, draw) ==
  IF q.id \notin DOMAIN ss /\ q.cmd # "join"
    THEN [sessions |-> ss, reply |-> Reply(0, q.cmd, SessionNotFound(q.id), <<>>)]
  ELSE LET s == IF q.id \in DOMAIN ss THEN ss[q.id] ELSE NewSession(0)
           r == IF q.cmd = "join" THEN ServeJoin(s, draw)
                ELSE IF q.cmd = "move" THEN ServeMove(s, q)
                ELSE IF q.cmd = "reset" THEN ServeReset(s)
                ELSE ServeView(s, q)
       IN [sessions |-> MapSet(ss, q.id, r.session), reply |-> Reply(0, q.cmd, r.text, r.state)]

ServeGameCommand(ss, q, draw) ==
  IF q.id \notin DOMAIN ss
    THEN [sessions |-> ss, reply |-> Reply(0, q.cmd, SessionNotFound(q.id), <<>>)]
  ELSE LET r == IF q.cmd = "join" THEN ServeJoin(ss[q.id], draw)
                ELSE IF q.cmd = "move" THEN ServeMove(ss[q.id], q)
                ELSE IF q.cmd = "reset" THEN ServeReset(ss[q.id])
                ELSE ServeView(ss[q.id], q)
       IN [sessions |-> [ss EXCEPT ![q.id] = r.session], reply |-> Reply(0, q.cmd, r.text, r.state)]

\* The queries of a game played out on one session: every command, and the
\* moves to every cell of the board by every token or none.
PlayQueries ==
  {[NoReq EXCEPT !.cmd = c, !.id = i] : c \in {"join", "board", "reset", "json"}, i \in SessionIDs}
    \cup {[cmd |-> "move", id |-> i, token |-> t, nil |-> FALSE, row |-> c[1], col |-> c[2]] :
             i \in SessionIDs, t \in Tokens \cup {NoToken}, c \in Pos}

\* handleCreateSession run to its reply, for the one session of the game.
PlayCreate ==
  /\ sessions = NoSessions
  /\ req = NoReq
  /\ \E id \in SessionIDs :
       /\ sessions' = MapSet(sessions, id, NewSession(now))
       /\ out' = Reply(0, "new", <<"New session created!", id>>, <<>>)
       /\ req' = [NoReq EXCEPT !.cmd = "new"]
  /\ UNCHANGED <<dnsVars, engineVars, Players, smu, pc, loc, issued, ncmd, last, now, reaped, mmu, cloc>>

\* A per-session query served to its reply; a join is given the first token
\* that is not registered in the session.
PlayCommand ==
  /\ req = NoReq
  /\ \E q \in PlayQueries :
       /\ \E draw \in IF q.cmd = "join" /\ q.id \in DOMAIN sessions
                          THEN {t \in Tokens : /\ ~TokenExists(t, sessions[q.id].Players)
                                               /\ \A u \in 1..(t - 1) : TokenExists(u, sessions[q.id].Players)}
                          ELSE {NoToken} :
            LET r == ServeGameCommand(sessions, q, draw) IN
              /\ sessions' = r.sessions
              /\ out' = r.reply
       /\ req' = q
  /\ UNCHANGED <<dnsVars, engineVars, Players, smu, pc, loc, issued, ncmd, last, now, reaped, mmu, cloc>>

\* w.WriteMsg: the reply is sent and the next query can be served.
PlayWrite ==
  /\ req # NoReq
  /\ req' = NoReq
  /\ out' = NoReply
  /\ UNCHANGED <<dnsVars, engineVars, Players, smu, pc, loc, issued, ncmd, last, sessions, now, reaped,
                 mmu, cloc>>

PlayNext == PlayCreate \/ PlayCommand \/ PlayWrite

\* One session, its queries served one at a time, any number of them.
PlaySpec == Init /\ [][PlayNext]_vars

\* handleCreateSession run to its reply: one more session.
CrossCreate ==
  /\ req = NoReq
  /\ \E id \in SessionIDs \ DOMAIN sessions :
       /\ sessions' = MapSet(sessions, id, NewSession(now))
       /\ out' = Reply(0, "new", <<"New session created!", id>>, <<>>)
       /\ req' = [NoReq EXCEPT !.cmd = "new"]
  /\ UNCHANGED <<dnsVars, engineVars, Players, smu, pc, loc, issued, ncmd, last, now, reaped, mmu, cloc>>

\* A per-session query served to its reply; a join is given any token that
\* is not registered in its session.
CrossCommand ==
  /\ req = NoReq
  /\ \E q \in GameQueries :
       /\ \E draw \in IF q.cmd = "join" /\ q.id \in DOMAIN sessions
                          THEN {t \in Tokens : ~TokenExists(t, sessions[q.id].Players)}
                          ELSE {NoToken} :
            LET r == ServeGameCommand(sessions, q, draw) IN
              /\ sessions' = r.sessions
              /\ out' = r.reply
       /\ req' = q
  /\ UNCHANGED <<dnsVars, engineVars, Players, smu, pc, loc, issued, ncmd, last, now, reaped, mmu, cloc>>

CrossNext == CrossCreate \/ CrossCommand \/ PlayWrite

\* Several sessions, their queries served one at a time, any number of them.
CrossSpec == Init /\ [][CrossNext]_vars

\* now.Sub(session.CreatedAt) > maxAge
ExpiredAtMaxAge(t, createdAt, maxAge) == t - createdAt >= maxAge

Expired(t, createdAt, maxAge) == t - createdAt > maxAge

\* CleanupOldSessions: the map after the pass.
CleanupOldSessionsSparesPlayers(ss, t, maxAge) ==
  [id \in {i \in DOMAIN ss : ~Expired(t, ss[i].CreatedAt, maxAge) \/ len(ss[i].Players) > 0} |-> ss[id]]

CleanupOldSessions(ss, t, maxAge) ==
  [id \in {i \in DOMAIN ss : ~Expired(t, ss[i].CreatedAt, maxAge)} |-> ss[id]]

\* The manager serves one more query, of the MaxQueries it serves in a run.
MgrReceive == ncmd < MaxQueries /\ ncmd' = ncmd + 1

\* handleCreateSession: CreateSession draws ids until one is not in the map.
MgrCreateSession ==
  /\ MgrReceive
  /\ \E id \in SessionIDs \ DOMAIN sessions :
       /\ sessions' = MapSet(sessions, id, NewSession(now))
       /\ out' = Reply(0, "new", <<"New session created!", id>>, <<>>)
       /\ req' = [NoReq EXCEPT !.cmd = "new"]
       /\ reaped' = reaped \ {id}
  /\ UNCHANGED <<dnsVars, engineVars, Players, smu, pc, loc, issued, last, now, mmu, cloc>>

\* A per-session query, served to its reply.
MgrGameCommand ==
  /\ MgrReceive
  /\ \E q \in GameQueries :
       /\ \E draw \in IF q.cmd = "join" /\ q.id \in DOMAIN sessions
                          THEN {t \in Tokens : ~TokenExists(t, sessions[q.id].Players)}
                          ELSE {NoToken} :
            LET r == ServeGameCommand(sessions, q, draw) IN
              /\ sessions' = r.sessions
              /\ out' = r.reply
       /\ req' = q
  /\ UNCHANGED <<dnsVars, engineVars, Players, smu, pc, loc, issued, last, now, reaped, mmu, cloc>>

\* Time passes.
Tick ==
  /\ now < MaxTime
  /\ now' = now + 1
  /\ req' = NoReq
  /\ out' = NoReply
  /\ UNCHANGED <<dnsVars, engineVars, Players, smu, pc, loc, issued, ncmd, last, sessions, reaped, mmu, cloc>>

\* The cleanup goroutine: one tick of its ticker.  CleanupOldSessions takes
\* m.mu.Lock().
ReaperPass ==
  /\ mmu = 0
  /\ sessions' = CleanupOldSessions(sessions, now, MaxAge)
  /\ reaped' = reaped \cup (DOMAIN sessions \ DOMAIN sessions')
  /\ req' = [NoReq EXCEPT !.cmd = "cleanup"]
  /\ out' = NoReply
  /\ UNCHANGED <<dnsVars, engineVars, Players, smu, pc, loc, issued, ncmd, last, now, mmu, cloc>>

ManagerNext == MgrCreateSession \/ MgrGameCommand \/ Tick \/ ReaperPass

ManagerSpec == Init /\ [][ManagerNext]_vars

\* Time passes and the ticker of the cleanup goroutine keeps firing.
FairManagerSpec == ManagerSpec /\ WF_vars(Tick) /\ WF_vars(ReaperPass)

\* ------------------------- handlers on a session the reaper can remove
\* The session of Board, Turn, Status, Players and smu is created and put in
\* the manager's map; the map's entry records its id and CreatedAt.
LiveCreate ==
  /\ sessions = NoSessions
  /\ reaped = {}
  /\ \E id \in SessionIDs : sessions' = MapSet(sessions, id, NewSession(now))
  /\ req' = [NoReq EXCEPT !.cmd = "new"]
  /\ out' = NoReply
  /\ UNCHANGED <<dnsVars, engineVars, Players, smu, pc, loc, issued, ncmd, last, now, reaped, mmu, cloc>>

\* Handlers look the session up (GetSession, under m.mu.RLock()) and then work
\* on the *Session they were given, step by step, while time passes and the
\* cleanup goroutine runs.
StaleNext ==
  \/ LiveCreate
  \/ \E p \in Procs : (Receive /\ mmu = 0 /\ sessions # NoSessions /\ handleGameCommand(p)) \/ Run(p)
  \/ Tick
  \/ ReaperPass

StaleSpec == Init /\ [][StaleNext]_vars

\* ------------------------------------- CreateSession, step by step
\* if _, exists := m.sessions[shortID]; !exists { break }
IDExistsNever(id, ss) == FALSE

IDExists(id, ss) == id \in DOMAIN ss

\* A create is being served by handler q and CreateSession has returned.
Returned(q) == pc[q] = "cr_write"

\* handleCreateSession: a create query arrives, CreateSession is called.
BeginCreate(p) ==
  /\ Goto(p, "idle", "cr_lock", NoLoc)
  /\ cloc' = [cloc EXCEPT ![p] = [id |-> 0, conc |-> {cloc[q].id : q \in {r \in Procs : Returned(r)}}]]
  /\ out' = NoReply
  /\ req' = NoReq
  /\ UNCHANGED <<dnsVars, engineVars, Players, smu, issued, ncmd, last, sessions, now, reaped, mmu>>

\* m.mu.Lock()
CreateLock(p) ==
  /\ mmu = 0
  /\ mmu' = p
  /\ Goto(p, "cr_lock", "cr_draw", loc[p])
  /\ out' = NoReply
  /\ req' = NoReq
  /\ UNCHANGED <<dnsVars, engineVars, Players, smu, issued, ncmd, last, sessions, now, reaped, cloc>>

\* shortID = uuid.New().String()[:length]
CreateDraw(p) ==
  /\ \E id \in SessionIDs : cloc' = [cloc EXCEPT ![p].id = id]
  /\ Goto(p, "cr_draw", "cr_check", loc[p])
  /\ out' = NoReply
  /\ req' = NoReq
  /\ UNCHANGED <<dnsVars, engineVars, Players, smu, issued, ncmd, last, sessions, now, reaped, mmu>>

\* The uniqueness check of the loop: break, or draw again.
CreateCheck(p) ==
  /\ Goto(p, "cr_check", IF IDExists(cloc[p].id, sessions) THEN "cr_draw" ELSE "cr_insert", loc[p])
  /\ out' = NoReply
  /\ req' = NoReq
  /\ UNCHANGED <<dnsVars, engineVars, Players, smu, issued, ncmd, last, sessions, now, reaped, mmu, cloc>>

\* m.sessions[shortID] = session; return shortID, nil (deferred unlock)
CreateInsert(p) ==
  /\ Goto(p, "cr_insert", "cr_write", loc[p])
  /\ sessions' = MapSet(sessions, cloc[p].id, NewSession(now))
  /\ mmu' = 0
  /\ reaped' = reaped \ {cloc[p].id}
  /\ cloc' = [q \in Procs |->
                IF q # p /\ pc[q] # "idle"
                  THEN [cloc[q] EXCEPT !.conc = @ \cup {cloc[p].id}]
                  ELSE cloc[q]]
  /\ out' = NoReply
  /\ req' = [NoReq EXCEPT !.cmd = "new"]
  /\ UNCHANGED <<dnsVars, engineVars, Players, smu, issued, ncmd, last, now>>

\* WriteSessionCreated
CreateWrite(p) ==
  /\ Goto(p, "cr_write", "idle", NoLoc)
  /\ out' = Reply(p, "new", <<"New session created!", cloc[p].id>>, <<>>)
  /\ cloc' = [cloc EXCEPT ![p] = NoCloc]
  /\ req' = NoReq
  /\ UNCHANGED <<dnsVars, engineVars, Players, smu, issued, ncmd, last, sessions, now, reaped, mmu>>

handleCreateSession(p) ==
  CreateLock(p) \/ CreateDraw(p) \/ CreateCheck(p) \/ CreateInsert(p) \/ CreateWrite(p)

\* A draw that yields an id no live session has.
FreshDraw(p) == CreateDraw(p) /\ cloc'[p].id \notin DOMAIN sessions

\* Concurrent create queries, the clock and the reaper.
CreateNext == (\E p \in Procs : BeginCreate(p) \/ handleCreateSession(p)) \/ Tick \/ ReaperPass

CreateSpec == Init /\ [][CreateNext]_vars

\* Every handler at once: creates, and lookups (GetSession, under
\* m.mu.RLock()) followed by the commands on the session, with the cleanup
\* goroutine's passes. Two queries are in service at a time, at most. Creates
\* are sent while the map is empty. A move is sent for the first cell of the
\* board with a token the session has issued; the tokens are numbered in the order
\* in which they are registered.
LockNext ==
  \/ \E p \in Procs :
       \/ sessions = NoSessions /\ Cardinality({q \in Procs : pc[q] # "idle"}) < 2 /\ BeginCreate(p)
       \/ handleCreateSession(p)
       \/ /\ Receive /\ mmu = 0 /\ handleGameCommand(p)
          /\ Cardinality({q \in Procs : pc[q] # "idle"}) < 2
          /\ pc'[p] = "mv_valid" => (loc'[p].token \in DOMAIN Players /\ ~loc'[p].nil /\ loc'[p].row = 0 /\ loc'[p].col = 0)
       \/ Run(p) /\ DOMAIN Players' = 1..len(Players')
  \/ ReaperPass

LockSpec == Init /\ [][LockNext]_vars

\* Scheduling: a handler that can take a step eventually does, also when the
\* manager lock is free only from time to time; the random draws eventually
\* yield an id that is not in the map, when there is one; time passes and the
\* ticker of the cleanup goroutine keeps firing.
FairCreateSpec ==
  /\ CreateSpec
  /\ \A p \in Procs : SF_vars(handleCreateSession(p)) /\ SF_vars(FreshDraw(p))
  /\ WF_vars(Tick) /\ WF_vars(ReaperPass)

\* ------------------------------------------------ DNS responder (server.go)
\* Names, labels and tokens are sequences of characters.  The strings
\* package, on them.
HasSuffix(s, suffix) ==
  Len(suffix) <= Len(s) /\ SubSeq(s, Len(s) - Len(suffix) + 1, Len(s)) = suffix

HasPrefix(s, prefix) == Len(prefix) <= Len(s) /\ SubSeq(s, 1, Len(prefix)) = prefix

TrimSuffix(s, suffix) == IF HasSuffix(s, suffix) THEN SubSeq(s, 1, Len(s) - Len(suffix)) ELSE s

Contains(s, substr) ==
  \E i \in 1..(Len(s) - Len(substr) + 1) : SubSeq(s, i, i + Len(substr) - 1) = substr

\* strings.Split(s, sep) for a separator of one character.
RECURSIVE Split(_, _)
Split(s, sep) ==
  IF \A i \in 1..Len(s) : s[i] # sep
    THEN <<s>>
    ELSE LET i == CHOOSE k \in 1..Len(s) : s[k] = sep /\ \A j \in 1..(k - 1) : s[j] # sep
         IN <<SubSeq(s, 1, i - 1)>> \o Split(SubSeq(s, i + 1, Len(s)), sep)

RECURSIVE Join(_, _)
Join(parts, sep) ==
  IF Len(parts) = 0 THEN <<>>
  ELSE IF Len(parts) = 1 THEN parts[1]
  ELSE parts[1] \o <<sep>> \o Join(Tail(parts), sep)

\* strings.ToLower, on the upper-case letters the queries use.
ToLower(s) ==
  [i \in 1..Len(s) |->
     IF s[i] = "N" THEN "n" ELSE IF s[i] = "E" THEN "e" ELSE IF s[i] = "W" THEN "w" ELSE s[i]]

\* fmt.Sscanf(s, "%d", &n): the decimal digits s starts with; an error when
\* it starts with none.
Digits == <<"0", "1", "2", "3", "4", "5", "6", "7", "8", "9">>

IsDigit(c) == \E d \in 1..10 : Digits[d] = c

RECURSIVE ScanDigits(_, _)
ScanDigits(s, acc) ==
  IF s = <<>> \/ ~IsDigit(s[1])
    THEN acc
    ELSE ScanDigits(Tail(s), 10 * acc + (CHOOSE d \in 1..10 : Digits[d] = s[1]) - 1)

Sscanf(s) ==
  IF s # <<>> /\ IsDigit(s[1])
    THEN [err |-> FALSE, val |-> ScanDigits(s, 0)]
    ELSE [err |-> TRUE, val |-> 0]

\* Zone.Normalize
Normalize(z) == IF Len(z) > 0 /\ z[Len(z)] # "." THEN z \o <<".">> ELSE z

\* The Command values (types.go).
CommandNew == "new"
CommandList == "list"
CommandHelp == "help"
CommandJoin == "join"
CommandBoard == "board"
CommandMove == "move"
CommandReset == "reset"
CommandJSON == "json"
CommandUnknown == "unknown"

ParseCommand(cmdStr) ==
  IF cmdStr \in {<<"n", "e", "w">>, <<"c", "r", "e", "a", "t", "e">>} THEN CommandNew
  ELSE IF cmdStr \in {<<"l", "i", "s", "t">>, <<"s", "e", "s", "s", "i", "o", "n", "s">>} THEN CommandList
  ELSE IF cmdStr \in {<<"h", "e", "l", "p">>, <<>>} THEN CommandHelp
  ELSE IF cmdStr = <<"j", "o", "i", "n">> THEN CommandJoin
  ELSE IF cmdStr \in {<<"b", "o", "a", "r", "d">>, <<"s", "t", "a", "t", "u", "s">>} THEN CommandBoard
  ELSE IF cmdStr = <<"r", "e", "s", "e", "t">> THEN CommandReset
  ELSE IF cmdStr = <<"j", "s", "o", "n">> THEN CommandJSON
  ELSE IF HasPrefix(cmdStr, <<"m", "o", "v", "e", "-">>) THEN CommandMove
  ELSE CommandUnknown

\* Command.IsSessionManagement (CommandCreate and CommandSessions are never
\* returned by ParseCommand)
IsSessionManagement(c) == c \in {CommandNew, CommandList, CommandHelp}

\* Command.IsGameCommand
IsGameCommand(c) ==
  c \in {CommandJoin, CommandBoard, CommandMove, CommandReset, CommandJSON}

\* SessionID.IsValid
SessionIDIsValid(id) == Len(id) >= 4 /\ Len(id) <= 36

NilParams == [Nil |-> TRUE, Row |-> 0, Col |-> 0]

\* The zero Query.
NoQuery == [SessionID |-> <<>>, PlayerToken |-> <<>>, Command |-> "", MoveParams |-> NilParams]

\* ParseMoveParams: move-ROW-COL-TOKEN
ParseMoveParams(moveStr) ==
  LET parts == Split(moveStr, "-") IN
    IF ~HasPrefix(moveStr, <<"m", "o", "v", "e", "-">>) \/ Len(parts) # 4 THEN NilParams
    ELSE LET row == Sscanf(parts[2])
             col == Sscanf(parts[3])
         IN IF row.err \/ col.err \/ Len(parts[4]) = 0 \/ ~IsValid(row.val, col.val)
              THEN NilParams
              ELSE [Nil |-> FALSE, Row |-> row.val, Col |-> col.val]

\* The hyphen form of parseSubdomain: the move query, when the form applies.
HyphenMoveExactlyFive(subdomain) ==
  LET parts == Split(subdomain, "-")
      moveIdx == IF \E i \in 1..Len(parts) : parts[i] = <<"m", "o", "v", "e">>
                   THEN (CHOOSE i \in 1..Len(parts) :
                           parts[i] = <<"m", "o", "v", "e">> /\ \A j \in 1..(i - 1) : parts[j] # <<"m", "o", "v", "e">>) - 1
                   ELSE -1
  IN IF Contains(subdomain, <<"-", "m", "o", "v", "e", "-">>) /\ Len(parts) = 5 /\ moveIdx = 2
          /\ SessionIDIsValid(parts[1])
       THEN LET row == Sscanf(parts[4])
                col == Sscanf(parts[5])
            IN [ok |-> TRUE,
                query |-> [SessionID |-> parts[1], PlayerToken |-> parts[2],
                           Command |-> CommandMove,
                           MoveParams |-> IF row.err \/ col.err THEN NilParams
                                          ELSE [Nil |-> FALSE, Row |-> row.val, Col |-> col.val]]]
       ELSE [ok |-> FALSE, query |-> NoQuery]

HyphenMove(subdomain) ==
  LET parts == Split(subdomain, "-")
      moveIdx == IF \E i \in 1..Len(parts) : parts[i] = <<"m", "o", "v", "e">>
                   THEN (CHOOSE i \in 1..Len(parts) :
                           parts[i] = <<"m", "o", "v", "e">> /\ \A j \in 1..(i - 1) : parts[j] # <<"m", "o", "v", "e">>) - 1
                   ELSE -1
  IN IF Contains(subdomain, <<"-", "m", "o", "v", "e", "-">>) /\ Len(parts) >= 5 /\ moveIdx = 2
          /\ SessionIDIsValid(parts[1])
       THEN LET row == Sscanf(parts[4])
                col == Sscanf(parts[5])
            IN [ok |-> TRUE,
                query |-> [SessionID |-> parts[1], PlayerToken |-> parts[2],
                           Command |-> CommandMove,
                           MoveParams |-> IF row.err \/ col.err THEN NilParams
                                          ELSE [Nil |-> FALSE, Row |-> row.val, Col |-> col.val]]]
       ELSE [ok |-> FALSE, query |-> NoQuery]

\* parseSubdomain: the Query of a sub-domain.
parseSubdomain(subdomain) ==
  LET cmd == ParseCommand(subdomain)
      hyphen == HyphenMove(subdomain)
      parts == Split(subdomain, ".")
  IN IF IsSessionManagement(cmd) THEN [NoQuery EXCEPT !.Command = cmd]
     ELSE IF hyphen.ok THEN hyphen.query
     ELSE IF Len(parts) < 2
       THEN IF SessionIDIsValid(subdomain)
              THEN [NoQuery EXCEPT !.SessionID = subdomain, !.Command = CommandBoard]
              ELSE [NoQuery EXCEPT !.Command = CommandHelp]
     ELSE IF ~SessionIDIsValid(parts[1]) THEN [NoQuery EXCEPT !.Command = CommandHelp]
     ELSE LET commandStr == Join(Tail(parts), ".")
              command == ParseCommand(commandStr)
          IN [SessionID |-> parts[1], PlayerToken |-> <<>>, Command |-> command,
              MoveParams |-> IF command = CommandMove THEN ParseMoveParams(commandStr)
                             ELSE NilParams]

\* The session ids and player tokens the generators draw, as strings: UUID
\* prefixes of length 4 and 2.
IDString(i) == <<"a", "b", "c">> \o <<Digits[i + 1]>>

TokenString(t) == <<"f">> \o <<Digits[t + 1]>>

\* The key of m.sessions a SessionID string is (0: of no id the generator
\* draws), and the key of s.Players a PlayerToken string is (-1 likewise).
IDValue(s) ==
  IF \E i \in SessionIDs : IDString(i) = s THEN CHOOSE i \in SessionIDs : IDString(i) = s ELSE 0

TokenValue(s) ==
  IF s = <<>> THEN NoToken
  ELSE IF \E t \in Tokens : TokenString(t) = s THEN CHOOSE t \in Tokens : TokenString(t) = s
  ELSE -1

\* The parsed query as handleGameCommand uses it.
GameQuery(query) ==
  [cmd |-> query.Command, id |-> IDValue(query.SessionID), token |-> TokenValue(query.PlayerToken),
   nil |-> query.MoveParams.Nil, row |-> query.MoveParams.Row, col |-> query.MoveParams.Col]

\* DNS response codes and the records of an answer section.
RcodeSuccess == "NOERROR"
RcodeFormatError == "FORMERR"
RcodeNameError == "NXDOMAIN"

\* writeText: one TXT record appended to the answer section.
writeText(answer, qname, text, ttl) ==
  Append(answer, [Rrtype |-> "TXT", Name |-> qname, Ttl |-> ttl, Txt |-> text, Ns |-> <<>>])

\* writeNSRecord
writeNSRecord(answer, qname, cfg) ==
  Append(answer, [Rrtype |-> "NS", Name |-> qname, Ttl |-> cfg.TTL, Txt |-> <<>>,
                  Ns |-> <<"l", "o", "c", "a", "l", "h", "o", "s", "t", ".">>])

\* handleQuery: the sessions and the answer section after the dispatch.  id
\* and token are what CreateSession and GeneratePlayerToken return when called.
handleQueryHelpless(ss, cfg, qname, query, id, token, t) ==
  IF query.SessionID = <<>> /\ IsSessionManagement(query.Command)
    THEN IF query.Command = CommandNew
           THEN [sessions |-> MapSet(ss, id, NewSession(t)),
                 answer |-> writeText(<<>>, qname, Reply(0, CommandNew, <<"New session created!", id>>, <<>>), cfg.TTL)]
         ELSE IF query.Command = CommandList
           THEN [sessions |-> ss,
                 answer |-> writeText(<<>>, qname, Reply(0, CommandList, <<"Active sessions", DOMAIN ss>>, <<>>), cfg.TTL)]
         ELSE [sessions |-> ss,
               answer |-> writeText(<<>>, qname, Reply(0, CommandHelp, <<"DNS Tic-Tac-Toe Commands">>, <<>>), cfg.TTL)]
  ELSE IF query.SessionID # <<>> /\ SessionIDIsValid(query.SessionID) /\ IsGameCommand(query.Command)
    THEN LET r == ServeGameCommand(ss, GameQuery(query), token) IN
           [sessions |-> r.sessions, answer |-> writeText(<<>>, qname, r.reply, cfg.TTL)]
  ELSE [sessions |-> ss, answer |-> <<>>]

handleQueryUnknownIsError(ss, cfg, qname, query, id, token, t) ==
  IF query.SessionID = <<>> /\ IsSessionManagement(query.Command)
    THEN IF query.Command = CommandNew
           THEN [sessions |-> MapSet(ss, id, NewSession(t)),
                 answer |-> writeText(<<>>, qname, Reply(0, CommandNew, <<"New session created!", id>>, <<>>), cfg.TTL)]
         ELSE IF query.Command = CommandList
           THEN [sessions |-> ss,
                 answer |-> writeText(<<>>, qname, Reply(0, CommandList, <<"Active sessions", DOMAIN ss>>, <<>>), cfg.TTL)]
         ELSE [sessions |-> ss,
               answer |-> writeText(<<>>, qname, Reply(0, CommandHelp, <<"DNS Tic-Tac-Toe Commands">>, <<>>), cfg.TTL)]
  ELSE IF query.SessionID # <<>> /\ SessionIDIsValid(query.SessionID) /\ IsGameCommand(query.Command)
    THEN LET r == ServeGameCommand(ss, GameQuery(query), token) IN
           [sessions |-> r.sessions, answer |-> writeText(<<>>, qname, r.reply, cfg.TTL)]
  ELSE [sessions |-> ss,
        answer |-> writeText(<<>>, qname, Reply(0, query.Command, <<"ERROR", "unknown command">>, <<>>), cfg.TTL)]

handleQuery(ss, cfg, qname, query, id, token, t) ==
  IF query.SessionID = <<>> /\ IsSessionManagement(query.Command)
    THEN IF query.Command = CommandNew
           THEN [sessions |-> MapSet(ss, id, NewSession(t)),
                 answer |-> writeText(<<>>, qname, Reply(0, CommandNew, <<"New session created!", id>>, <<>>), cfg.TTL)]
         ELSE IF query.Command = CommandList
           THEN [sessions |-> ss,
                 answer |-> writeText(<<>>, qname, Reply(0, CommandList, <<"Active sessions", DOMAIN ss>>, <<>>), cfg.TTL)]
         ELSE [sessions |-> ss,
               answer |-> writeText(<<>>, qname, Reply(0, CommandHelp, <<"DNS Tic-Tac-Toe Commands">>, <<>>), cfg.TTL)]
  ELSE IF query.SessionID # <<>> /\ SessionIDIsValid(query.SessionID) /\ IsGameCommand(query.Command)
    THEN LET r == ServeGameCommand(ss, GameQuery(query), token) IN
           [sessions |-> r.sessions, answer |-> writeText(<<>>, qname, r.reply, cfg.TTL)]
  ELSE [sessions |-> ss,
        answer |-> writeText(<<>>, qname, Reply(0, CommandHelp, <<"DNS Tic-Tac-Toe Commands">>, <<>>), cfg.TTL)]

\* The zone check of HandleRequest and parseQuery on the lower-cased name.
ZoneMatch(qname, cfg) ==
  LET zoneNormalized == Normalize(cfg.Zone)
      qnameNormalized == IF HasSuffix(qname, <<".">>) THEN qname ELSE qname \o <<".">>
  IN HasSuffix(qnameNormalized, zoneNormalized)

\* parseQuery of an on-zone name.
parseQuery(qname, cfg) ==
  LET zoneNormalized == Normalize(cfg.Zone)
      qnameNormalized == IF HasSuffix(qname, <<".">>) THEN qname ELSE qname \o <<".">>
  IN parseSubdomain(TrimSuffix(TrimSuffix(qnameNormalized, zoneNormalized), <<".">>))

\* HandleRequest: the sessions, the rcode and the answer section of the reply
\* to question q (q.none: the message has no question).
HandleRequestAnyType(ss, cfg, q, id, token, t) ==
  LET qname == ToLower(q.Name) IN
    IF q.none
      THEN [sessions |-> ss, rcode |-> RcodeFormatError, answer |-> <<>>, query |-> NoQuery]
    ELSE IF q.Qtype = "NS"
      THEN IF ZoneMatch(qname, cfg)
             THEN [sessions |-> ss, rcode |-> RcodeSuccess,
                   answer |-> writeNSRecord(<<>>, qname, cfg), query |-> NoQuery]
             ELSE [sessions |-> ss, rcode |-> RcodeNameError, answer |-> <<>>, query |-> NoQuery]
    ELSE IF ~ZoneMatch(qname, cfg)
      THEN [sessions |-> ss, rcode |-> RcodeNameError, answer |-> <<>>, query |-> NoQuery]
    ELSE LET query == parseQuery(qname, cfg)
             r == handleQuery(ss, cfg, q.Name, query, id, token, t)
         IN [sessions |-> r.sessions, rcode |-> RcodeSuccess, answer |-> r.answer, query |-> query]

HandleRequest(ss, cfg, q, id, token, t) ==
  LET qname == ToLower(q.Name) IN
    IF q.none
      THEN [sessions |-> ss, rcode |-> RcodeFormatError, answer |-> <<>>, query |-> NoQuery]
    ELSE IF q.Qtype = "NS"
      THEN IF ZoneMatch(qname, cfg)
             THEN [sessions |-> ss, rcode |-> RcodeSuccess,
                   answer |-> writeNSRecord(<<>>, qname, cfg), query |-> NoQuery]
             ELSE [sessions |-> ss, rcode |-> RcodeNameError, answer |-> <<>>, query |-> NoQuery]
    ELSE IF q.Qtype # "TXT"
      THEN IF ZoneMatch(qname, cfg)
             THEN [sessions |-> ss, rcode |-> RcodeSuccess, answer |-> <<>>, query |-> NoQuery]
             ELSE [sessions |-> ss, rcode |-> RcodeNameError, answer |-> <<>>, query |-> NoQuery]
    ELSE IF ~ZoneMatch(qname, cfg)
      THEN [sessions |-> ss, rcode |-> RcodeNameError, answer |-> <<>>, query |-> NoQuery]
    ELSE LET query == parseQuery(qname, cfg)
             r == handleQuery(ss, cfg, q.Name, query, id, token, t)
         IN [sessions |-> r.sessions, rcode |-> RcodeSuccess, answer |-> r.answer, query |-> query]

\* The sub-domains of the queries sent to the server.
LongLabel == [i \in 1..37 |-> "a"]

SubDomains ==
  {<<>>, <<"n", "e", "w">>, <<"c", "r", "e", "a", "t", "e">>, <<"l", "i", "s", "t">>, <<"h", "e", "l", "p">>, <<"N", "E", "W">>, <<"a", "b", "c">>, <<"a", "b", "c", ".", "j", "o", "i", "n">>, <<"d", "e", "a", "d", ".", "b", "o", "a", "r", "d">>,
   <<"m", "o", "v", "e", "-", "f", "1", "-", "m", "o", "v", "e", "-", "1", "-", "1">>, LongLabel}
    \cup UNION {{IDString(i), IDString(i) \o <<".", "j", "o", "i", "n">>, IDString(i) \o <<".", "b", "o", "a", "r", "d">>,
                 IDString(i) \o <<".", "r", "e", "s", "e", "t">>, IDString(i) \o <<".", "j", "s", "o", "n">>, IDString(i) \o <<".", "n", "e", "w">>,
                 IDString(i) \o <<".", "l", "i", "s", "t">>, IDString(i) \o <<".", "j", "o", "i", "n", ".", "e", "x", "t", "r", "a">>,
                 IDString(i) \o <<".", "m", "o", "v", "e", "-", "1", "-", "1", "-", "f", "1">>, IDString(i) \o <<".", "m", "o", "v", "e", "-", "x">>,
                 IDString(i) \o <<"-", "-", "m", "o", "v", "e", "-", "0", "-", "0">>} : i \in SessionIDs}
    \cup UNION {{IDString(i) \o <<"-">> \o TokenString(t) \o <<"-", "m", "o", "v", "e", "-", "0", "-", "0">>,
                 IDString(i) \o <<"-">> \o TokenString(t) \o <<"-", "m", "o", "v", "e", "-", "1", "-", "1", "-", "9">>,
                 IDString(i) \o <<"-">> \o TokenString(t) \o <<"-", "m", "o", "v", "e", "-", "3", "-", "0">>,
                 IDString(i) \o <<"-">> \o TokenString(t) \o <<"-", "m", "o", "v", "e", "-", "x", "-", "1">>,
                 IDString(i) \o <<"-">> \o TokenString(t) \o <<"-", "m", "o", "v", "e", "-", "1">>,
                 IDString(i) \o <<"-">> \o TokenString(t) \o <<"-", "m", "o", "v", "e", "-", "0", "-", "1", "-">> \o LongLabel}
                  : i \in SessionIDs, t \in Tokens}

\* The zone of the server, and names on it and off it.
Zone == <<"g", "a", "m", "e", ".", "l", "o", "c", "a", "l", ".">>

QNames ==
  {IF sub = <<>> THEN Zone ELSE sub \o <<".">> \o Zone : sub \in SubDomains}
    \cup {<<"n", "e", "w", ".", "g", "a", "m", "e", ".", "l", "o", "c", "a", "l">>, <<"n", "e", "w", "g", "a", "m", "e", ".", "l", "o", "c", "a", "l", ".">>, <<"x", "g", "a", "m", "e", ".", "l", "o", "c", "a", "l", ".">>, <<"f", "o", "o", ".", "e", "x", "a", "m", "p", "l", "e", ".", "c", "o", "m", ".">>,
          <<"a", "b", "c", "1", ".", "j", "o", "i", "n", ".", "e", "x", "a", "m", "p", "l", "e", ".", "c", "o", "m", ".">>}

\* A message without a question, and the questions of the messages sent.
NoQuestion == [none |-> TRUE, Name |-> <<>>, Qtype |-> ""]

Questions ==
  {NoQuestion}
    \cup {[none |-> FALSE, Name |-> n, Qtype |-> "TXT"] : n \in QNames}
    \cup {[none |-> FALSE, Name |-> n, Qtype |-> ty] :
             n \in {Zone, <<"n", "e", "w", ".">> \o Zone,
                     IDString(1) \o <<"-">> \o TokenString(1) \o <<"-", "m", "o", "v", "e", "-", "0", "-", "0", ".">> \o Zone,
                     <<"n", "e", "w", "g", "a", "m", "e", ".", "l", "o", "c", "a", "l", ".">>,
                     <<"f", "o", "o", ".", "e", "x", "a", "m", "p", "l", "e", ".", "c", "o", "m", ".">>},
             ty \in {"NS", "A"}}

\* The configurations main loads from the environment: DNS_TTL, NS_HOSTNAME.
Configs ==
  {[Zone |-> Zone, TTL |-> 0, NSHostname |-> <<"l", "o", "c", "a", "l", "h", "o", "s", "t">>],
   [Zone |-> Zone, TTL |-> 60, NSHostname |-> <<"n", "s", "1">>]}

\* No message is being served; no reply has been built.
NoMessage == [none |-> FALSE, Name |-> <<>>, Qtype |-> ""]

NoResponse == [rcode |-> "", answer |-> <<>>]

\* A message arrives, one of the MaxRequests the server serves in a run.
DNSReceive ==
  /\ question = NoMessage
  /\ ncmd < MaxRequests
  /\ ncmd' = ncmd + 1
  /\ question' \in Questions
  /\ UNCHANGED <<engineVars, Players, smu, pc, loc, issued, out, last, sessions, now, req, reaped, mmu,
                 cloc, config, resp>>

\* HandleRequest builds the reply.
DNSServe ==
  /\ question # NoMessage
  /\ resp = NoResponse
  /\ LET q == question
         parsed == IF ~q.none /\ q.Qtype = "TXT" /\ ZoneMatch(ToLower(q.Name), config)
                     THEN parseQuery(ToLower(q.Name), config) ELSE NoQuery
         gq == GameQuery(parsed)
     IN \E id \in IF parsed.SessionID = <<>> /\ parsed.Command = CommandNew
                    THEN SessionIDs \ DOMAIN sessions ELSE {0} :
        \E token \in IF parsed.Command = CommandJoin /\ gq.id \in DOMAIN sessions
                       THEN {tk \in Tokens : ~TokenExists(tk, sessions[gq.id].Players)}
                       ELSE {NoToken} :
          LET r == HandleRequest(sessions, config, q, id, token, now) IN
            /\ sessions' = r.sessions
            /\ resp' = [rcode |-> r.rcode, answer |-> r.answer]
            /\ req' = GameQuery(r.query)
  /\ UNCHANGED <<engineVars, Players, smu, pc, loc, issued, out, ncmd, last, now, reaped, mmu, cloc,
                 config, question>>

\* w.WriteMsg(m)
DNSWrite ==
  /\ resp # NoResponse
  /\ question' = NoMessage
  /\ resp' = NoResponse
  /\ req' = NoReq
  /\ UNCHANGED <<engineVars, Players, smu, pc, loc, issued, out, ncmd, last, sessions, now, reaped, mmu,
                 cloc, config>>

DNSNext == DNSReceive \/ DNSServe \/ DNSWrite

DNSInit == InitState /\ config \in Configs

DNSSpec == DNSInit /\ [][DNSNext]_vars

\* ------------------------------------ the move name of the join reply
\* uuid.New().String(): 36 characters, hyphens after the 8th, 12th, 16th and
\* 20th hexadecimal digit.
UUIDs ==
  {<<"3", "f", "2", "a", "9", "c", "1", "e", "-", "7", "b", "0", "4", "-", "4", "d", "8", "a", "-", "9", "e", "5", "5", "-", "0", "c", "6", "d", "1", "a", "2", "b", "3", "c", "4", "d">>,
   <<"a", "8", "1", "d", "0", "7", "f", "3", "-", "c", "2", "e", "9", "-", "4", "b", "1", "6", "-", "8", "f", "3", "0", "-", "5", "e", "7", "a", "9", "b", "0", "c", "1", "d", "2", "e">>}

\* uuidStr[:length] of CreateSession, length capped at the UUID's length.
ShortID(uuidStr, length) ==
  SubSeq(uuidStr, 1, IF length > Len(uuidStr) THEN Len(uuidStr) ELSE length)

\* GeneratePlayerToken, given the UUID drawn.
GeneratePlayerToken(uuidStr, length) ==
  LET l == IF length <= 0 THEN 8 ELSE length
  IN SubSeq(uuidStr, 1, IF l > Len(uuidStr) THEN Len(uuidStr) ELSE l)

\* The name WriteJoinSuccess tells the client to use, %s-%s-move-ROW-COL.%s,
\* with a row and a col in place of ROW and COL.
MoveName(sessionID, token, row, col, zone) ==
  sessionID \o <<"-">> \o token \o <<"-", "m", "o", "v", "e", "-">> \o <<Digits[row + 1]>> \o <<"-">> \o <<Digits[col + 1]>>
    \o <<".">> \o TrimSuffix(zone, <<".">>)

\* The configurations: every session-id length in [4,36] and every token
\* length in [1,36].
NameConfigs ==
  {[Zone |-> Zone, TTL |-> 0, NSHostname |-> <<"l", "o", "c", "a", "l", "h", "o", "s", "t">>, SessionIDLength |-> n, PlayerTokenLength |-> k] :
     n \in 4..36, k \in 1..36}

\* A session is created and joined: the join reply carries the id and the
\* token issued.
NameJoin ==
  /\ out = NoReply
  /\ \E u \in UUIDs, v \in UUIDs :
       out' = Reply(0, "join",
                    <<"Joined session", ShortID(u, config.SessionIDLength),
                      GeneratePlayerToken(v, config.PlayerTokenLength), PlayerX>>, <<>>)
  /\ UNCHANGED <<engineVars, Players, smu, pc, loc, issued, ncmd, last, sessions, now, req, reaped, mmu,
                 cloc, config, question, resp>>

\* The client sends a TXT query for the move name of the join reply and
\* parseQuery parses it.
NameMove ==
  /\ out # NoReply
  /\ question = NoMessage
  /\ \E row \in Idx, col \in Idx :
       /\ question' = [none |-> FALSE, Name |-> MoveName(out.text[2], out.text[3], row, col, config.Zone),
                       Qtype |-> "TXT"]
       /\ req' = parseQuery(ToLower(question'.Name), config)
  /\ UNCHANGED <<engineVars, Players, smu, pc, loc, issued, out, ncmd, last, sessions, now, reaped, mmu,
                 cloc, config, resp>>

NameNext == NameJoin \/ NameMove

NameInit == InitState /\ config \in NameConfigs

NameSpec == NameInit /\ [][NameNext]_vars

\* ------------------------------------------------------------------ claims

\* C1: in every reachable state, under any interleaving of concurrent join
\* commands, the Players map of the session holds at most 2 entries.
C1_PlayersAtMostTwo == len(Players) <= 2

\* Two players are registered and a third join, which began before the second
\* join had returned, holds the lock and is about to be checked.
C1_Witness ==
  /\ len(Players) = 2
  /\ \E p \in Procs : pc[p] = "join_check" /\ loc[p].seen < 2

\* C2: the first JoinSession that returns a token is assigned X and the second
\* O; two joins that run concurrently on an empty session receive one X and
\* one O: any two successful joins of a session hold different symbols.
C2_FirstXSecondO ==
  /\ Len(issued) >= 1 => issued[1].player = PlayerX
  /\ Len(issued) >= 2 => issued[2].player = PlayerO
  /\ \A i \in DOMAIN issued, j \in DOMAIN issued :
       i # j => {issued[i].player, issued[j].player} = {PlayerX, PlayerO}

\* Two joins that both began before any join had returned have both returned.
C2_Witness ==
  /\ Len(issued) = 2
  /\ issued[1].seen = 0 /\ issued[2].seen = 0
  /\ issued[1].player = PlayerX /\ issued[2].player = PlayerO

\* C3: every JoinSession call terminates (it returns a token or the
\* session-full error) and releases the session lock, also when the token
\* drawn first equals a registered token.
C3_JoinTerminates == \A p \in Procs : (pc[p] = "join_lock") ~> (pc[p] = "idle")

\* C4: the tokens a session has issued are pairwise distinct, at most one of
\* them maps to X and at most one to O, and every issued token keeps mapping
\* to the symbol it was issued with, also after reset commands.
C4_TokensDistinctAndStable ==
  /\ \A i \in DOMAIN issued, j \in DOMAIN issued :
       i # j => issued[i].token # issued[j].token /\ issued[i].player # issued[j].player
  /\ \A i \in DOMAIN issued :
       issued[i].token \in DOMAIN Players /\ Players[issued[i].token] = issued[i].player
  /\ \A t \in DOMAIN Players, u \in DOMAIN Players : Players[t] = Players[u] => t = u

\* Both tokens are issued and a reset command has just been answered.
C4_Witness == Len(issued) = 2 /\ out.cmd = "reset"

\* C5: a join that finds 2 players registered fails with the session-full
\* error, issues no token and leaves Players, board, turn and status as they
\* were.
C5_FullJoinRejected ==
  [][\A p \in Procs :
       (pc[p] = "join_check" /\ pc'[p] # "join_check" /\ len(Players) = 2)
         => /\ pc'[p] = "idle"
            /\ out' = Reply(p, "join", <<"ERROR", "session is full (2 players already joined)">>, <<>>)
            /\ issued' = issued
            /\ UNCHANGED <<Players, Board, Turn, Status>>]_vars

\* A join has just been rejected as session-full in a started game.
C5_Witness ==
  /\ out.cmd = "join" /\ out.text[1] = "ERROR"
  /\ len(Players) = 2
  /\ Status = StatusPlaying

\* C6: in every reachable state, also between the steps of a running join or
\* reset command, a session with 2 joined players does not have engine status
\* pending.
C6_TwoPlayersNeverPending == len(Players) = 2 => Status # StatusPending

\* C7: MakeMove reports the error of the first failing check, the checks
\* being, in order: status = playing (game over), player = Turn (wrong turn),
\* row and col in [0,2] (invalid position), target cell empty (position
\* taken); it reports no error when all four hold.
C7_FirstFailingCheck ==
  [][last'.op = "MakeMove" =>
       LET row == last'.row
           col == last'.col
           code == last'.err.Code
           playing == Status = StatusPlaying
           onTurn == last'.player = Turn
           inRange == row \in 0..2 /\ col \in 0..2
       IN /\ ~playing => code = ErrCodeGameOver /\ last'.err.Msg[2] = Status
          /\ playing /\ ~onTurn => code = ErrCodeWrongTurn
          /\ playing /\ onTurn /\ ~inRange => code = ErrCodeInvalidPosition
          /\ playing /\ onTurn /\ inRange /\ Board[<<row, col>>] # Empty
               => code = ErrCodePositionTaken
          /\ playing /\ onTurn /\ inRange /\ Board[<<row, col>>] = Empty
               => last'.err = NoErr]_vars

\* An out-of-range move by the player who is not on turn was answered with
\* the wrong-turn error.
C7_Witness ==
  /\ last.op = "MakeMove"
  /\ last.err.Code = ErrCodeWrongTurn
  /\ ~(last.row \in 0..2 /\ last.col \in 0..2)
  /\ Board # EmptyBoard

\* C8: whenever MakeMove returns an error, board, turn and status are what
\* they were before the call.
C8_ErrorChangesNothing ==
  [][(last'.op = "MakeMove" /\ last'.err # NoErr) => UNCHANGED <<Board, Turn, Status>>]_vars

\* A move to a taken cell was rejected.
C8_Witness ==
  /\ last.op = "MakeMove"
  /\ last.err = ErrPositionTaken
  /\ Board[<<last.row, last.col>>] # Empty

\* C9: an accepted move by P at (row,col) finds the cell empty and leaves P in
\* it, changes no other cell, and flips Turn iff the game goes on; on a win or
\* a draw Turn stays.
C9_AcceptedMove ==
  [][(last'.op = "MakeMove" /\ last'.err = NoErr) =>
       LET at == <<last'.row, last'.col>> IN
         /\ at \in Pos
         /\ Board[at] = Empty
         /\ Board'[at] = last'.player
         /\ \A q \in Pos \ {at} : Board'[q] = Board[q]
         /\ Status' = StatusPlaying => Turn' # Turn /\ Turn' \in {PlayerX, PlayerO}
         /\ Status' # StatusPlaying => Turn' = Turn]_vars

\* An accepted move has just won the game for X, and it is still X's turn.
C9_Witness ==
  /\ last.op = "MakeMove" /\ last.err = NoErr
  /\ Status = StatusXWins /\ Turn = PlayerX

\* C10: after an accepted move by P the status is P's win status iff some row,
\* column or diagonal is all P; otherwise it is draw iff no cell is empty;
\* otherwise it is playing.
C10_StatusAfterMove ==
  (last.op = "MakeMove" /\ last.err = NoErr) =>
    LET P == last.player
        lines == {{<<i, j>> : j \in Idx} : i \in Idx}
                   \cup {{<<i, j>> : i \in Idx} : j \in Idx}
                   \cup {{<<i, i>> : i \in Idx}, {<<i, 2 - i>> : i \in Idx}}
        line == \E l \in lines : \A q \in l : Board[q] = P
        full == \A q \in Pos : Board[q] # Empty
        win == IF P = PlayerX THEN StatusXWins ELSE StatusOWins
    IN /\ Status = win <=> line
       /\ ~line => (Status = StatusDraw <=> full)
       /\ ~line /\ ~full => Status = StatusPlaying
       /\ Status \in {win, StatusDraw, StatusPlaying}

\* The move that filled the last cell completed a line: a win, not a draw.
C10_Witness ==
  /\ last.op = "MakeMove" /\ last.err = NoErr
  /\ \A q \in Pos : Board[q] # Empty
  /\ Status = StatusXWins

\* C11: in every reachable state the status agrees with the board: X_wins
\* (O_wins) implies a complete line of X (O) and no complete line of the
\* other symbol; draw implies a full board with no complete line; playing
\* implies no complete line and at least one empty cell.
C11_StatusMatchesBoard ==
  LET Lines ==
        {{<<i, 0>>, <<i, 1>>, <<i, 2>>} : i \in Idx}
          \cup {{<<0, j>>, <<1, j>>, <<2, j>>} : j \in Idx}
          \cup {{<<0, 0>>, <<1, 1>>, <<2, 2>>}, {<<0, 2>>, <<1, 1>>, <<2, 0>>}}
      Line(pl) == \E l \in Lines : \A pos \in l : Board[pos] = pl
      Full == \A pos \in Pos : Board[pos] # Empty
  IN
    /\ Status = StatusXWins => Line(PlayerX) /\ ~Line(PlayerO)
    /\ Status = StatusOWins => Line(PlayerO) /\ ~Line(PlayerX)
    /\ Status = StatusDraw => Full /\ ~Line(PlayerX) /\ ~Line(PlayerO)
    /\ Status = StatusPlaying => ~Line(PlayerX) /\ ~Line(PlayerO) /\ ~Full

\* A game has ended in a draw: the ninth move filled the board.
C11_Witness == Status = StatusDraw /\ last.op = "MakeMove" /\ last.err = NoErr

\* C12 (as claimed): on a session with fewer than 2 joined players every move
\* command, whatever its token, row and col, is answered with ERROR: waiting
\* for players to join (need 2 players) and changes nothing.
C12_AnyMoveWaits ==
  [][\A p \in Procs :
       (pc[p] \in {"mv_valid", "mv_count", "mv_player", "mv_make", "mv_write"}
          /\ pc'[p] = "idle" /\ len(Players) < 2)
         => /\ out' = Reply(p, "move", <<"ERROR", "waiting for players to join (need 2 players)">>, <<>>)
            /\ UNCHANGED <<Board, Turn, Status, Players, issued>>]_vars

\* C12 (amended): on a session with fewer than 2 joined players every move
\* command whose row and col are integers in [0,2], whatever its token, is
\* answered with ERROR: waiting for players to join (need 2 players); a move
\* command whose row or col is missing, not a number or outside [0,2] is
\* answered with ERROR: invalid move format; neither changes anything.
C12_ValidMoveWaits ==
  [][\A p \in Procs :
       (pc[p] \in {"mv_valid", "mv_count", "mv_player", "mv_make", "mv_write"}
          /\ pc'[p] # pc[p] /\ len(Players) < 2)
         => /\ UNCHANGED <<Board, Turn, Status, Players, issued>>
            /\ IF loc[p].nil \/ loc[p].row \notin Idx \/ loc[p].col \notin Idx
                 THEN /\ pc'[p] = "idle"
                      /\ out' = Reply(p, "move", NewInvalidMoveFormatError(loc[p]), <<>>)
                 ELSE \/ pc[p] = "mv_valid" /\ pc'[p] = "mv_count" /\ out' = NoReply
                      \/ /\ pc[p] = "mv_count" /\ pc'[p] = "idle"
                         /\ out' = Reply(p, "move",
                                         <<"ERROR", "waiting for players to join (need 2 players)">>, <<>>)]_vars

\* A move on a session with one joined player has just been answered with the
\* waiting error.
C12_Witness ==
  /\ len(Players) = 1
  /\ out.cmd = "move"
  /\ out.text = <<"ERROR", "waiting for players to join (need 2 players)">>

\* C13 (as claimed): a move whose row or col is an integer outside [0,2], sent
\* with the token of the player on turn in a playing session, reaches MakeMove
\* and is answered with a move-error reply that holds the invalid-position
\* error and the current board.
C13_EngineChecksRange ==
  [][\A p \in Procs :
       (/\ pc[p] \in {"mv_valid", "mv_count", "mv_player", "mv_make", "mv_write"}
        /\ pc'[p] = "idle"
        /\ ~loc[p].nil /\ (loc[p].row \notin Idx \/ loc[p].col \notin Idx)
        /\ Status = StatusPlaying
        /\ loc[p].token \in DOMAIN Players /\ Players[loc[p].token] = Turn)
         => out' = Reply(p, "move", <<"ERROR", NewInvalidPositionError(loc[p].row, loc[p].col)>>,
                         FormatBoard(game))]_vars

\* C13 (amended): row and col are range-checked by handleMoveCommand before
\* the engine: a move whose row or col is an integer outside [0,2], also when
\* sent with the token of the player on turn in a playing session, is answered
\* with ERROR: invalid move format, a reply without a board, and changes
\* nothing; MakeMove is only ever called with row and col in [0,2].
C13_HandlerChecksRange ==
  [][\A p \in Procs :
       /\ (pc[p] = "mv_valid" /\ pc'[p] # pc[p]
             /\ ~loc[p].nil /\ (loc[p].row \notin Idx \/ loc[p].col \notin Idx))
            => /\ pc'[p] = "idle"
               /\ out' = Reply(p, "move", NewInvalidMoveFormatError(loc[p]), <<>>)
               /\ UNCHANGED <<Board, Turn, Status, Players, issued>>
       /\ pc'[p] = "mv_make" => loc'[p].row \in Idx /\ loc'[p].col \in Idx]_vars

\* A move to row 3 with the token of the player on turn in a playing session
\* has just been answered with the invalid-move-format error.
C13_Witness ==
  /\ Status = StatusPlaying
  /\ out.cmd = "move" /\ Len(out.text) = 3 /\ out.text[2] = "invalid move format"
  /\ ~out.text[3].nil /\ out.text[3].row = 3
  /\ out.text[3].token \in DOMAIN Players /\ Players[out.text[3].token] = Turn

C15_AbsentSessionNotFound ==
  [][(req'.cmd \in {"join", "board", "reset", "json", "move"} /\ req'.id \notin DOMAIN sessions)
       => /\ out' = Reply(0, req'.cmd,
                          <<"ERROR", "session not found", req'.id, "Create a new session with: new">>,
                          <<>>)
          /\ sessions' = sessions]_vars

\* A move with invalid move fields on an absent id has just been answered
\* session-not-found, while another session exists.
C15_Witness ==
  /\ req.cmd = "move" /\ req.row = 3
  /\ req.id \notin DOMAIN sessions /\ DOMAIN sessions # {}
  /\ out.text[2] = "session not found"

\* C16: when a reset command runs with no other command on the session
\* running concurrently, no step of it changes Players, and when it completes
\* the board is empty, the turn is X, the status is playing if 2 players are
\* joined and pending otherwise, and the reply shows that state.
C16_ResetRestarts ==
  [][\A p \in Procs :
       (pc[p] \in {"rs_reset", "rs_count", "rs_start", "rs_write"} /\ pc'[p] # pc[p])
         => /\ Players' = Players /\ issued' = issued
            /\ pc'[p] = "idle"
                 => /\ Board' = EmptyBoard
                    /\ Turn' = PlayerX
                    /\ Status' = IF len(Players) = 2 THEN StatusPlaying ELSE StatusPending
                    /\ out' = Reply(p, "reset", <<"Game reset!">>, <<Board', Turn', Status'>>)]_vars

\* A reset of a session with 2 joined players has just completed and the game
\* is playing again.
C16_Witness ==
  /\ out.cmd = "reset"
  /\ len(Players) = 2
  /\ Status = StatusPlaying /\ Board = EmptyBoard /\ Turn = PlayerX

\* C17: commands on a session are linearizable; in particular a move in a
\* session with 2 joined players, running concurrently with a reset, is never
\* rejected by the engine with the game-over error for status "pending".
C17_MoveNeverSeesPending ==
  \A p \in Procs :
    (pc[p] = "mv_write" /\ len(Players) = 2)
      => loc[p].err # NewGameOverError(StatusPending)

\* C18: a session leaves the manager's map only in a reaper pass and only
\* when its age since CreatedAt exceeds MaxAge; a reaper pass removes every
\* such session and keeps the others unchanged; no query removes a session or
\* changes its CreatedAt.
C18_OnlyReaperRemoves ==
  [][/\ \A id \in DOMAIN sessions :
          /\ id \notin DOMAIN sessions'
               => req'.cmd = "cleanup" /\ now - sessions[id].CreatedAt > MaxAge
          /\ id \in DOMAIN sessions' => sessions'[id].CreatedAt = sessions[id].CreatedAt
     /\ req'.cmd = "cleanup"
          => \A id \in DOMAIN sessions :
               IF now - sessions[id].CreatedAt > MaxAge
                 THEN id \notin DOMAIN sessions'
                 ELSE id \in DOMAIN sessions' /\ sessions'[id] = sessions[id]]_vars

\* A reaper pass has just removed one session and kept a younger one, whose
\* age is exactly MaxAge.
C18_Witness ==
  /\ req.cmd = "cleanup"
  /\ reaped # {}
  /\ \E id \in DOMAIN sessions : now - sessions[id].CreatedAt = MaxAge

\* C19: an id that a reaper pass has removed stays out of the map until
\* CreateSession issues it again, and until then every per-session query on
\* it (board, join, move with any token, reset, json) is answered
\* session-not-found.
C19_ReapedStaysNotFound ==
  [][/\ \A id \in reaped :
          /\ id \notin DOMAIN sessions
          /\ (id \in DOMAIN sessions' \/ id \notin reaped') => req'.cmd = "new"
     /\ (req'.cmd \in {"join", "board", "reset", "json", "move"} /\ req'.id \in reaped)
          => /\ out' = Reply(0, req'.cmd, SessionNotFound(req'.id), <<>>)
             /\ sessions' = sessions /\ reaped' = reaped]_vars

\* A join on an id that the reaper removed has just been answered
\* session-not-found.
C19_Witness ==
  /\ req.cmd = "join" /\ req.id \in reaped
  /\ out.text[2] = "session not found"

C21_FreshAndDistinct ==
  [][\A p \in Procs :
       (pc[p] = "cr_insert" /\ pc'[p] = "cr_write")
         => LET id == cloc[p].id IN
              /\ id \notin DOMAIN sessions
              /\ DOMAIN sessions' = DOMAIN sessions \cup {id}
              /\ \A j \in DOMAIN sessions : sessions'[j] = sessions[j]
              /\ sessions'[id].Game = [Board |-> EmptyBoard, Turn |-> PlayerX, Status |-> StatusPending]
              /\ sessions'[id].Players = NoPlayers
              /\ id \notin cloc[p].conc]_vars

\* C21 (amended): as above, except that the id may equal one returned to a
\* concurrently running create when the reaper has removed that session since.
C21_FreshAndDistinctWhileLive ==
  [][\A p \in Procs :
       (pc[p] = "cr_insert" /\ pc'[p] = "cr_write")
         => LET id == cloc[p].id IN
              /\ id \notin DOMAIN sessions
              /\ DOMAIN sessions' = DOMAIN sessions \cup {id}
              /\ \A j \in DOMAIN sessions : sessions'[j] = sessions[j]
              /\ sessions'[id].Game = [Board |-> EmptyBoard, Turn |-> PlayerX, Status |-> StatusPending]
              /\ sessions'[id].Players = NoPlayers
              /\ (id \in cloc[p].conc => id \in reaped)]_vars

\* Two creates that ran concurrently have both returned, with distinct ids,
\* while an older session is live.
C21_Witness ==
  \E p \in Procs, q \in Procs :
    /\ p # q /\ Returned(p) /\ Returned(q)
    /\ cloc[p].id # cloc[q].id
    /\ cloc[p].id \in cloc[q].conc \/ cloc[q].id \in cloc[p].conc
    /\ cloc[p].id \in DOMAIN sessions /\ cloc[q].id \in DOMAIN sessions

\* C22: every create command runs to completion: CreateSession returns,
\* releasing the manager lock, and the reply is written.
C22_CreateTerminates == \A p \in Procs : (pc[p] = "cr_lock") ~> (pc[p] = "idle")

\* C23: a query of any type whose name is neither the zone nor a name that
\* ends with the zone at a label boundary is answered NXDOMAIN with an empty
\* answer section, and the sessions stay as they were.
C23_OffZoneNameError ==
  [][(resp = NoResponse /\ resp' # NoResponse /\ ~question.none)
       => LET qn == Normalize(ToLower(question.Name))
              onZone == qn = Zone \/ HasSuffix(qn, <<".">> \o Zone)
          IN ~onZone => /\ resp'.rcode = RcodeNameError
                        /\ resp'.answer = <<>>
                        /\ sessions' = sessions]_vars

\* C24: an on-zone query of a type other than TXT and NS is answered NOERROR
\* with an empty answer section, and the sessions stay as they were.
C24_OtherTypesNoData ==
  [][(resp = NoResponse /\ resp' # NoResponse /\ ~question.none /\ question.Qtype \notin {"TXT", "NS"})
       => LET qn == Normalize(ToLower(question.Name))
              onZone == qn = Zone \/ HasSuffix(qn, <<".">> \o Zone)
          IN onZone => /\ resp'.rcode = RcodeSuccess
                       /\ resp'.answer = <<>>
                       /\ sessions' = sessions]_vars

\* A type A query for the move name of a joined player of a session with 2
\* players has been answered.
C24_Witness ==
  /\ resp # NoResponse
  /\ question.Qtype = "A"
  /\ question.Name = IDString(1) \o <<"-">> \o TokenString(1) \o <<"-", "m", "o", "v", "e", "-", "0", "-", "0", ".">> \o Zone
  /\ 1 \in DOMAIN sessions
  /\ len(sessions[1].Players) = 2
  /\ 1 \in DOMAIN sessions[1].Players

\* C25: an NS query for the zone or a sub-domain of it is answered with one
\* NS record whose target is the configured nameserver host and whose TTL is
\* the configured TTL, and the sessions stay as they were; an off-zone NS
\* query is answered NXDOMAIN.
C25_NSRecordOfConfiguredHost ==
  [][(resp = NoResponse /\ resp' # NoResponse /\ ~question.none /\ question.Qtype = "NS")
       => LET qn == Normalize(ToLower(question.Name))
              onZone == qn = Zone \/ HasSuffix(qn, <<".">> \o Zone)
          IN IF onZone
               THEN /\ resp'.rcode = RcodeSuccess
                    /\ Len(resp'.answer) = 1
                    /\ resp'.answer[1].Rrtype = "NS"
                    /\ TrimSuffix(resp'.answer[1].Ns, <<".">>) = TrimSuffix(config.NSHostname, <<".">>)
                    /\ resp'.answer[1].Ttl = config.TTL
                    /\ sessions' = sessions
               ELSE resp'.rcode = RcodeNameError /\ resp'.answer = <<>>]_vars

\* C26: every on-zone TXT query is answered NOERROR with exactly one TXT
\* record, whatever the command and its outcome; a reply with rcode FORMERR
\* or NXDOMAIN, and the reply to an on-zone query of another type than TXT
\* and NS, carries no record.
C26_OneTXTAnswer ==
  [][(resp = NoResponse /\ resp' # NoResponse)
       => LET qn == Normalize(ToLower(question.Name))
              onZone == ~question.none /\ (qn = Zone \/ HasSuffix(qn, <<".">> \o Zone))
          IN /\ (onZone /\ question.Qtype = "TXT")
                  => /\ resp'.rcode = RcodeSuccess
                     /\ Len(resp'.answer) = 1
                     /\ resp'.answer[1].Rrtype = "TXT"
                     /\ resp'.answer[1].Txt.text # <<>>
             /\ resp'.rcode \in {RcodeFormatError, RcodeNameError} => resp'.answer = <<>>
             /\ (onZone /\ question.Qtype \notin {"TXT", "NS"}) => resp'.answer = <<>>
             /\ question.none => resp'.rcode = RcodeFormatError]_vars

\* A move has been accepted and answered with one TXT record.
C26_Witness ==
  /\ resp # NoResponse
  /\ question.Qtype = "TXT"
  /\ Len(resp.answer) = 1
  /\ resp.answer[1].Txt.text # <<>>
  /\ resp.answer[1].Txt.text[1] = "Move accepted!"

\* C27 (as claimed): a single-label sub-domain is recognised as a move
\* command iff it has exactly five hyphen-separated fields, the third being
\* move and the first a well-formed session id; a label with six or more
\* fields changes no board.
C27_ExactlyFiveFields ==
  [][(resp = NoResponse /\ resp' # NoResponse /\ ~question.none /\ question.Qtype = "TXT")
       => LET qn == Normalize(ToLower(question.Name))
              onZone == HasSuffix(qn, <<".">> \o Zone)
              label == TrimSuffix(qn, <<".">> \o Zone)
              fields == Split(label, "-")
          IN (onZone /\ ~Contains(label, <<".">>))
               => /\ (req'.cmd = CommandMove)
                       <=> (Len(fields) = 5 /\ fields[3] = <<"m", "o", "v", "e">> /\ SessionIDIsValid(fields[1]))
                  /\ Len(fields) >= 6 => sessions' = sessions]_vars

\* C27 (amended): a single-label sub-domain is recognised as a move command
\* iff it has at least five hyphen-separated fields, the first of them equal
\* to move being the third, and the first a well-formed session id; the move
\* carries the first field as session id, the second as token and the numbers
\* the fourth and fifth fields start with as row and col; later fields are
\* ignored.
C27_AtLeastFiveFields ==
  [][(resp = NoResponse /\ resp' # NoResponse /\ ~question.none /\ question.Qtype = "TXT")
       => LET qn == Normalize(ToLower(question.Name))
              onZone == HasSuffix(qn, <<".">> \o Zone)
              label == TrimSuffix(qn, <<".">> \o Zone)
              fields == Split(label, "-")
              isMove == /\ Len(fields) >= 5
                        /\ fields[3] = <<"m", "o", "v", "e">> /\ fields[1] # <<"m", "o", "v", "e">> /\ fields[2] # <<"m", "o", "v", "e">>
                        /\ SessionIDIsValid(fields[1])
          IN (onZone /\ ~Contains(label, <<".">>))
               => /\ (req'.cmd = CommandMove) <=> isMove
                  /\ isMove =>
                       /\ req'.id = IDValue(fields[1])
                       /\ req'.token = TokenValue(fields[2])
                       /\ req'.nil = (Sscanf(fields[4]).err \/ Sscanf(fields[5]).err)
                       /\ ~req'.nil => req'.row = Sscanf(fields[4]).val /\ req'.col = Sscanf(fields[5]).val]_vars

\* A move named by a label of six fields has been accepted.
C27_Witness ==
  /\ resp # NoResponse
  /\ question.Qtype = "TXT"
  /\ Len(Split(question.Name, "-")) = 6
  /\ Len(resp.answer) = 1
  /\ resp.answer[1].Txt.text # <<>>
  /\ resp.answer[1].Txt.text[1] = "Move accepted!"

\* C28 (as claimed): an on-zone TXT query is answered with the help text and
\* changes no session when its first label is not a keyword and has a length
\* outside [4,36], and when its first label is a well-formed session id and
\* the labels after it are not one of join, board, status, reset, json.
C28_UnrecognisedGetsHelp ==
  [][(resp = NoResponse /\ resp' # NoResponse /\ ~question.none /\ question.Qtype = "TXT")
       => LET qn == Normalize(ToLower(question.Name))
              onZone == qn = Zone \/ HasSuffix(qn, <<".">> \o Zone)
              sub == IF qn = Zone THEN <<>> ELSE TrimSuffix(qn, <<".">> \o Zone)
              labels == Split(sub, ".")
              first == labels[1]
              rest == Join(Tail(labels), ".")
              caseA == /\ first \notin {<<"n", "e", "w">>, <<"c", "r", "e", "a", "t", "e">>, <<"l", "i", "s", "t">>, <<"s", "e", "s", "s", "i", "o", "n", "s">>, <<"h", "e", "l", "p">>}
                       /\ (Len(first) < 4 \/ Len(first) > 36)
              caseB == /\ Len(first) >= 4 /\ Len(first) <= 36
                       /\ Len(labels) >= 2
                       /\ rest \notin {<<"j", "o", "i", "n">>, <<"b", "o", "a", "r", "d">>, <<"s", "t", "a", "t", "u", "s">>, <<"r", "e", "s", "e", "t">>, <<"j", "s", "o", "n">>}
          IN (onZone /\ (caseA \/ caseB))
               => /\ resp'.rcode = RcodeSuccess
                  /\ Len(resp'.answer) = 1
                  /\ resp'.answer[1].Txt.text = <<"DNS Tic-Tac-Toe Commands">>
                  /\ sessions' = sessions]_vars

\* C28 (amended): as above, for a sub-domain that is not a hyphen-form move
\* name, and in the second case for labels after the session id that do not
\* start with move- either.
C28_UnrecognisedNonMoveGetsHelp ==
  [][(resp = NoResponse /\ resp' # NoResponse /\ ~question.none /\ question.Qtype = "TXT")
       => LET qn == Normalize(ToLower(question.Name))
              onZone == qn = Zone \/ HasSuffix(qn, <<".">> \o Zone)
              sub == IF qn = Zone THEN <<>> ELSE TrimSuffix(qn, <<".">> \o Zone)
              labels == Split(sub, ".")
              first == labels[1]
              rest == Join(Tail(labels), ".")
              fields == Split(sub, "-")
              hyphenMove == /\ Len(fields) >= 5
                            /\ fields[3] = <<"m", "o", "v", "e">> /\ fields[1] # <<"m", "o", "v", "e">> /\ fields[2] # <<"m", "o", "v", "e">>
                            /\ Len(fields[1]) >= 4 /\ Len(fields[1]) <= 36
              caseA == /\ first \notin {<<"n", "e", "w">>, <<"c", "r", "e", "a", "t", "e">>, <<"l", "i", "s", "t">>, <<"s", "e", "s", "s", "i", "o", "n", "s">>, <<"h", "e", "l", "p">>}
                       /\ (Len(first) < 4 \/ Len(first) > 36)
              caseB == /\ Len(first) >= 4 /\ Len(first) <= 36
                       /\ Len(labels) >= 2
                       /\ rest \notin {<<"j", "o", "i", "n">>, <<"b", "o", "a", "r", "d">>, <<"s", "t", "a", "t", "u", "s">>, <<"r", "e", "s", "e", "t">>, <<"j", "s", "o", "n">>}
                       /\ ~HasPrefix(rest, <<"m", "o", "v", "e", "-">>)
          IN (onZone /\ ~hyphenMove /\ (caseA \/ caseB))
               => /\ resp'.rcode = RcodeSuccess
                  /\ Len(resp'.answer) = 1
                  /\ resp'.answer[1].Txt.text = <<"DNS Tic-Tac-Toe Commands">>
                  /\ sessions' = sessions]_vars

\* The query <sid>.new for a live session with a joined player has been
\* answered with the help text.
C28_Witness ==
  /\ resp # NoResponse
  /\ question.Qtype = "TXT"
  /\ question.Name = IDString(1) \o <<".", "n", "e", "w", ".">> \o Zone
  /\ 1 \in DOMAIN sessions
  /\ len(sessions[1].Players) = 1
  /\ Len(resp.answer) = 1
  /\ resp.answer[1].Txt.text = <<"DNS Tic-Tac-Toe Commands">>

\* C29: the json reply, parsed, gives the board, turn and status of the copy
\* GetState() returned to the handler, with status pending in place of the
\* copy's when the handler counted fewer than 2 players; a reply whose status
\* is playing, X_wins, O_wins or draw is written for a session with 2 players.
C29_JSONRoundTrip ==
  [][\A p \in Procs :
       (pc[p] = "js_write" /\ pc'[p] = "idle")
         => LET Parse(t) == [Board |-> [c \in Pos |-> t[2 + 3 * c[1] + c[2]]],
                             Turn |-> t[12], Status |-> t[14]]
                text == out'.text
                parsed == Parse(text)
            IN /\ out'.cmd = "json"
               /\ Len(text) = 14
               /\ text[1] = "board" /\ text[11] = "turn" /\ text[13] = "status"
               /\ parsed.Board = loc[p].state.Board
               /\ parsed.Turn = loc[p].state.Turn
               /\ parsed.Status = IF loc[p].count < 2 THEN StatusPending ELSE loc[p].state.Status
               /\ parsed.Status \in {StatusPlaying, StatusXWins, StatusOWins, StatusDraw}
                    => len(Players) = 2
               /\ Parse(GetStateJSON(game)) = game]_vars

\* A json reply that reports playing has been written.
C29_Witness ==
  /\ out.cmd = "json"
  /\ Len(out.text) = 14
  /\ out.text[14] = StatusPlaying
  /\ len(Players) = 2

\* C30: in a session whose status is X_wins, O_wins or draw no move is
\* accepted, and join, board, status and json queries leave board, turn and
\* status as they are: the game changes only when a reset is served; StartGame
\* applied to the game leaves it as it is.
C30_TerminalUntilReset ==
  [][\A id \in DOMAIN sessions :
       sessions[id].Game.Status \in {StatusXWins, StatusOWins, StatusDraw}
         => /\ id \in DOMAIN sessions'
            /\ (req'.cmd = "move" /\ req'.id = id) => out'.text[1] = "ERROR"
            /\ req'.cmd \in {"join", "board", "json", "move", "new"} => sessions'[id].Game = sessions[id].Game
            /\ sessions'[id].Game # sessions[id].Game => (req'.cmd = "reset" /\ req'.id = id)
            /\ StartGame(sessions[id].Game) = sessions[id].Game]_vars

\* A move has been refused in a drawn game.
C30_Witness ==
  /\ req.cmd = "move"
  /\ req.id \in DOMAIN sessions
  /\ sessions[req.id].Game.Status = StatusDraw
  /\ req.token \in DOMAIN sessions[req.id].Players
  /\ Len(out.text) = 2
  /\ out.text[1] = "ERROR"
  /\ out.text[2] = NewGameOverError(StatusDraw)

C32_AcceptedReplyShowsMove ==
  [][\A p \in Procs :
       (pc[p] = "mv_write" /\ pc'[p] = "idle" /\ out'.text[1] = "Move accepted!")
         => out'.state[1][<<loc[p].row, loc[p].col>>] = loc[p].player]_vars

\* C33: once a reaper pass has removed the session from the manager, no step
\* of a handler changes its board, turn, status or Players, and no reply
\* other than an error is written for it.
C33_NoEffectAfterReap ==
  [][(sessions = NoSessions /\ reaped # {})
       => /\ game' = game
          /\ Players' = Players
          /\ out' # NoReply => out'.text[1] = "ERROR"]_vars

C35_NoGameBeforeSecondJoin ==
  len(Players) < 2 => (Status = StatusPending /\ Board = EmptyBoard)

\* A reset has been answered in a session with one player.
C35_Witness ==
  /\ len(Players) = 1
  /\ out.cmd = "reset"
  /\ Status = StatusPending

\* C36: the number of X cells minus the number of O cells is 0 or 1, and
\* while status is playing the turn is X iff the two numbers are equal.
C36_CountsAndTurn ==
  LET nx == Cardinality({c \in Pos : Board[c] = PlayerX})
      no == Cardinality({c \in Pos : Board[c] = PlayerO})
  IN /\ nx - no \in {0, 1}
     /\ Status = StatusPlaying => ((Turn = PlayerX) <=> (nx = no))

\* The first move of a game has been accepted: one cell is filled and O is to
\* move.
C36_Witness ==
  /\ Status = StatusPlaying
  /\ Turn = PlayerO
  /\ Cardinality({c \in Pos : Board[c] # Empty}) = 1
  /\ last.op = "MakeMove"
  /\ last.err = NoErr

\* C37: an accepted move fills one more cell of the session's board and only
\* a reset empties cells, so that at most 9 moves are accepted between two
\* resets; a session whose board is full has status X_wins, O_wins or draw.
C37_NineMovesThenTerminal ==
  [][\A id \in DOMAIN sessions :
       LET filled(g) == Cardinality({c \in Pos : g.Board[c] # Empty})
           g == sessions[id].Game
           h == sessions'[id].Game
       IN /\ id \in DOMAIN sessions'
          /\ (req'.cmd = "move" /\ req'.id = id /\ out'.text[1] = "Move accepted!")
               => (filled(g) < 9 /\ filled(h) = filled(g) + 1)
          /\ filled(h) > filled(g)
               => (req'.cmd = "move" /\ req'.id = id /\ out'.text[1] = "Move accepted!")
          /\ filled(h) < filled(g) => (req'.cmd = "reset" /\ req'.id = id)
          /\ filled(h) = 9 => h.Status \in {StatusXWins, StatusOWins, StatusDraw}]_vars

\* The ninth move of a game has been accepted and the game is a draw.
C37_Witness ==
  /\ req.cmd = "move"
  /\ req.id \in DOMAIN sessions
  /\ out.text[1] = "Move accepted!"
  /\ isBoardFull(sessions[req.id].Game.Board)
  /\ sessions[req.id].Game.Status = StatusDraw

\* C38 (as claimed): a command addressed to a session leaves every other
\* session as it is, and a move in a session with a token that only another
\* session has issued is answered with the invalid player token error.
C38_ForeignTokenInvalid ==
  [][req' # NoReq =>
       /\ \A id \in DOMAIN sessions : id # req'.id => (id \in DOMAIN sessions' /\ sessions'[id] = sessions[id])
       /\ (/\ req'.cmd = "move" /\ req'.id \in DOMAIN sessions
            /\ req'.token \notin DOMAIN sessions[req'.id].Players
            /\ \E o \in DOMAIN sessions : o # req'.id /\ req'.token \in DOMAIN sessions[o].Players)
           => /\ out'.text = <<"ERROR", "invalid player token", req'.token>>
              /\ sessions' = sessions]_vars

\* C38 (amended): a command addressed to a session leaves every other session
\* as it is, and a move in a session with a token that only another session
\* has issued is refused and changes nothing: with the invalid player token
\* error when the move names a cell of the board and the session has 2
\* players, with the error of the earlier check otherwise.
C38_ForeignTokenRefused ==
  [][req' # NoReq =>
       /\ \A id \in DOMAIN sessions : id # req'.id => (id \in DOMAIN sessions' /\ sessions'[id] = sessions[id])
       /\ (/\ req'.cmd = "move" /\ req'.id \in DOMAIN sessions
            /\ req'.token \notin DOMAIN sessions[req'.id].Players
            /\ \E o \in DOMAIN sessions : o # req'.id /\ req'.token \in DOMAIN sessions[o].Players)
           => /\ out'.text[1] = "ERROR"
              /\ sessions' = sessions
              /\ (~req'.nil /\ req'.row \in Idx /\ req'.col \in Idx /\ len(sessions[req'.id].Players) = 2)
                   => out'.text = <<"ERROR", "invalid player token", req'.token>>
              /\ (req'.nil \/ req'.row \notin Idx \/ req'.col \notin Idx)
                   => out'.text = NewInvalidMoveFormatError(req')
              /\ (~req'.nil /\ req'.row \in Idx /\ req'.col \in Idx /\ len(sessions[req'.id].Players) < 2)
                   => out'.text = <<"ERROR", "waiting for players to join (need 2 players)">>]_vars

\* A move in a session with 2 players, sent with a token that only another
\* session has issued, has been refused as an invalid player token.
C38_Witness ==
  /\ req.cmd = "move"
  /\ req.id \in DOMAIN sessions
  /\ len(sessions[req.id].Players) = 2
  /\ req.token \notin DOMAIN sessions[req.id].Players
  /\ \E o \in DOMAIN sessions : o # req.id /\ req.token \in DOMAIN sessions[o].Players
  /\ out.text = <<"ERROR", "invalid player token", req.token>>

\* C39: only a TXT query whose name is in the zone with the sub-domain new or
\* create adds a session, and such a query adds exactly one.
C39_OnlyNewCreates ==
  [][(resp = NoResponse /\ resp' # NoResponse)
       => LET qn == Normalize(ToLower(question.Name))
              onZone == ~question.none /\ HasSuffix(qn, <<".">> \o Zone)
              sub == TrimSuffix(qn, <<".">> \o Zone)
              isNew == /\ onZone /\ question.Qtype = "TXT"
                       /\ sub \in {<<"n", "e", "w">>, <<"c", "r", "e", "a", "t", "e">>}
          IN /\ \A id \in DOMAIN sessions : id \in DOMAIN sessions'
             /\ DOMAIN sessions' # DOMAIN sessions => isNew
             /\ isNew => Cardinality(DOMAIN sessions' \ DOMAIN sessions) = 1]_vars

\* C40: the move name of the join reply, parsed, is a move command that
\* carries the session id and the player token of that reply, and the row
\* and col the client put in.
C40_MoveNameParsesBack ==
  [][(question = NoMessage /\ question' # NoMessage)
       => /\ req'.Command = CommandMove
          /\ req'.SessionID = out.text[2]
          /\ req'.PlayerToken = out.text[3]
          /\ ~req'.MoveParams.Nil]_vars

====
